---- MODULE Spec2Model ----
(***************************************************************************)
(* Drag-and-drop list widget (mx-kshitij/ReactDragNDrop).                  *)
(*                                                                         *)
(* Two list instances (DragAndDropList components) share one browser       *)
(* document.  Every React state hook of a list is one variable indexed by  *)
(* the list id; the browser's drag gesture (dataTransfer payload, the DOM  *)
(* attributes used as registry, the element the drag started on) is the    *)
(* environment.  Every event handler is one action.  Array indices are     *)
(* 0-based as in the source; At(s, i) reads element i of a sequence.       *)
(*                                                                         *)
(* Optional values (T | null | undefined) are sequences of length <= 1:    *)
(* <<>> is null/undefined, <<v>> is the value v.                           *)
(***************************************************************************)
EXTENDS Integers, Sequences, FiniteSets, TLC

----------------------------------------------------------------------------
(* Bounds of the explored universe                                         *)

\* largest position of the first item of a supplied snapshot
MaxStart == 0
\* largest distance between the positions of two neighbouring items
MaxStep == 2
\* pointer geometry explored by the zone resolver: rectangle heights 1..MaxHeight
MaxHeight == 3

\* longest allowed-lists text, in tokens, explored by the policy scenario
MaxTokens == 3

Lists == {"L1", "L2"}

\* order of the list containers in the document (querySelectorAll order)
DocumentOrder == <<"L1", "L2">>

----------------------------------------------------------------------------
(* Generic array helpers (JavaScript Array semantics, 0-based)             *)

None == <<>>
Some(v) == <<v>>
IsSome(o) == Len(o) > 0
Val(o) == o[1]

At(s, i) == s[i + 1]

Indices(s) == 0 .. (Len(s) - 1)

\* Array.prototype.findIndex(i => i.uuid === uuid): first match or -1
FindIndex(s, uuid) ==
    IF \E i \in Indices(s) : At(s, i).uuid = uuid
    THEN CHOOSE i \in Indices(s) :
            /\ At(s, i).uuid = uuid
            /\ \A j \in Indices(s) : At(s, j).uuid = uuid => i <= j
    ELSE -1

\* Array.prototype.splice(idx, 1): the array without element idx
\* (unchanged when idx is past the end)
SpliceOut(s, idx) ==
    IF idx >= Len(s) THEN s
    ELSE SubSeq(s, 1, idx) \o SubSeq(s, idx + 2, Len(s))

\* the elements splice(idx, 1) returns
SpliceTaken(s, idx) == IF idx >= Len(s) THEN <<>> ELSE <<At(s, idx)>>

\* splice that ignores the index and appends
SpliceInAtEnd(s, idx, ins) == s \o ins

\* Array.prototype.splice(idx, 0, ...ins); an index past the end appends
SpliceIn(s, idx, ins) ==
    IF idx >= Len(s) THEN s \o ins
    ELSE SubSeq(s, 1, idx) \o ins \o SubSeq(s, idx + 1, Len(s))

Uuids(s) == [i \in 1 .. Len(s) |-> s[i].uuid]

\* a membership test that never finds the identifier
SomeUuidNever(s, uuid) == FALSE

\* Array.prototype.some(i => i.uuid === uuid)
SomeUuid(s, uuid) == \E k \in 1 .. Len(s) : s[k].uuid = uuid

Range(s) == {s[i] : i \in 1 .. Len(s)}

RECURSIVE InsertByOriginalIndex(_, _)
\* insert e behind every element whose originalIndex is not greater (stable)
InsertByOriginalIndex(s, e) ==
    IF s = <<>> THEN <<e>>
    ELSE IF e.originalIndex < Head(s).originalIndex THEN <<e>> \o s
    ELSE <<Head(s)>> \o InsertByOriginalIndex(Tail(s), e)

RECURSIVE SortByOriginalIndex(_)
\* Array.prototype.sort((a, b) => a.originalIndex - b.originalIndex): stable
SortByOriginalIndex(s) ==
    IF s = <<>> THEN <<>>
    ELSE InsertByOriginalIndex(SortByOriginalIndex(SubSeq(s, 1, Len(s) - 1)), s[Len(s)])

----------------------------------------------------------------------------
(* validation.ts                                                           *)

\* A comma-separated string is a sequence of tokens: a list id, "," or " ".
\* An unset prop (undefined) is NoString.
Tokens == Lists \cup {",", " "}
NoString == [isSet |-> FALSE, text |-> <<>>]
Str(t) == [isSet |-> TRUE, text |-> t]

RECURSIVE TrimLeft(_)
TrimLeft(t) == IF t # <<>> /\ Head(t) = " " THEN TrimLeft(Tail(t)) ELSE t

RECURSIVE TrimRight(_)
TrimRight(t) ==
    IF t # <<>> /\ t[Len(t)] = " " THEN TrimRight(SubSeq(t, 1, Len(t) - 1)) ELSE t

\* a trim that leaves the text as it is
TrimNothing(t) == t

\* String.prototype.trim
Trim(t) == TrimRight(TrimLeft(t))

RECURSIVE SplitAcc(_, _)
\* String.prototype.split(","): the pieces between the commas
SplitAcc(t, cur) ==
    IF t = <<>> THEN <<cur>>
    ELSE IF Head(t) = "," THEN <<cur>> \o SplitAcc(Tail(t), <<>>)
    ELSE SplitAcc(Tail(t), Append(cur, Head(t)))

Split(t) == SplitAcc(t, <<>>)

\* a policy that lets every list receive
isDropAllowedAnyTarget(sourceAllowedLists, sourceListId, targetListId) == TRUE

isDropAllowed(sourceAllowedLists, sourceListId, targetListId) ==
    IF ~sourceAllowedLists.isSet \/ Trim(sourceAllowedLists.text) = <<>>
    THEN FALSE
    ELSE LET allowedListsArray ==
                SelectSeq([k \in 1 .. Len(Split(sourceAllowedLists.text)) |->
                              Trim(Split(sourceAllowedLists.text)[k])],
                          LAMBDA id : Len(id) > 0)
         IN  \E k \in 1 .. Len(allowedListsArray) :
                allowedListsArray[k] = <<targetListId>>

----------------------------------------------------------------------------
(* types: DragItem and ChangeRecord                                        *)

DragItem(uuid, originalIndex, listId) ==
    [uuid |-> uuid, originalIndex |-> originalIndex, listId |-> listId]

\* optional string fields of a ChangeRecord that are not present
Undefined == "undefined"

\* a record that names the source list as its target
ChangeRecordToSource(uuid, newIndex, sourceListId, targetListId, dropType, targetItemUuid) ==
    [uuid |-> uuid, newIndex |-> newIndex,
     sourceListId |-> sourceListId, targetListId |-> sourceListId,
     dropType |-> dropType, targetItemUuid |-> targetItemUuid]

\* newIndex is an optional number: <<>> is null, <<n>> is n
ChangeRecord(uuid, newIndex, sourceListId, targetListId, dropType, targetItemUuid) ==
    [uuid |-> uuid, newIndex |-> newIndex,
     sourceListId |-> sourceListId, targetListId |-> targetListId,
     dropType |-> dropType, targetItemUuid |-> targetItemUuid]

RECURSIVE Concat(_)
\* flatten an array of arrays (the effect of repeated push(...xs))
Concat(ss) == IF ss = <<>> THEN <<>> ELSE Head(ss) \o Concat(Tail(ss))

----------------------------------------------------------------------------
(* itemUtils.ts                                                            *)

\* the `item-${index}` fallback identifier
FallbackUuid(index) == "item-" \o ToString(index)

\* the array index is taken as the position of every object
initializeItemsByArrayIndex(dataSource, sortingAttribute, listId) ==
    IF ~dataSource.available THEN <<>>
    ELSE [k \in 1 .. Len(dataSource.items) |->
            LET item == dataSource.items[k]
            IN  DragItem(IF IsSome(item.uuid) THEN Val(item.uuid)
                         ELSE FallbackUuid(k - 1), k - 1, listId)]

\* A data source is [available, items]; each object carries an optional uuid
\* value and an optional sorting value (a Big, truthy whenever present).
initializeItems(dataSource, sortingAttribute, listId) ==
    IF ~dataSource.available THEN <<>>
    ELSE LET newItems ==
                [k \in 1 .. Len(dataSource.items) |->
                    LET item == dataSource.items[k]
                        index == k - 1
                        uuid == IF IsSome(item.uuid) THEN Val(item.uuid)
                                ELSE FallbackUuid(index)
                        sortIndex == IF sortingAttribute /\ IsSome(item.sort)
                                     THEN Val(item.sort) ELSE index
                    IN  DragItem(uuid, sortIndex, listId)]
         IN  SortByOriginalIndex(newItems)

isDraggedItem(item, draggedItems) == SomeUuid(draggedItems, item.uuid)

----------------------------------------------------------------------------
(* dropHandlers.ts                                                         *)

\* the records of the items left behind are labelled like dragged ones
generateSourceListReindexingLabelled(sourceListAllItems, movedUuids, sourceListId) ==
    LET movedSet == Range(movedUuids)
        remainingItems ==
            SortByOriginalIndex(
                SelectSeq(sourceListAllItems, LAMBDA item : item.uuid \notin movedSet))
    IN  [k \in 1 .. Len(remainingItems) |->
            ChangeRecord(remainingItems[k].uuid, Some(k - 1),
                         sourceListId, sourceListId, "after", Undefined)]

\* re-indexing that counts from 1
generateSourceListReindexingFromOne(sourceListAllItems, movedUuids, sourceListId) ==
    LET movedSet == Range(movedUuids)
        remainingItems ==
            SortByOriginalIndex(
                SelectSeq(sourceListAllItems, LAMBDA item : item.uuid \notin movedSet))
    IN  [k \in 1 .. Len(remainingItems) |->
            ChangeRecord(remainingItems[k].uuid, Some(k),
                         sourceListId, sourceListId, Undefined, Undefined)]

generateSourceListReindexing(sourceListAllItems, movedUuids, sourceListId) ==
    LET movedSet == Range(movedUuids)
        remainingItems ==
            SortByOriginalIndex(
                SelectSeq(sourceListAllItems, LAMBDA item : item.uuid \notin movedSet))
    IN  [k \in 1 .. Len(remainingItems) |->
            ChangeRecord(remainingItems[k].uuid, Some(k - 1),
                         sourceListId, sourceListId, Undefined, Undefined)]

\* every dragged item is given index 0
handleDropToEmptyListAllZero(itemsBeingDragged, sourceListId, targetListId, sourceListAllItems) ==
    LET targetChanges ==
            [k \in 1 .. Len(itemsBeingDragged) |->
                ChangeRecord(itemsBeingDragged[k], Some(0),
                             sourceListId, targetListId, "after", Undefined)]
        sourceChanges ==
            IF IsSome(sourceListAllItems)
            THEN generateSourceListReindexing(Val(sourceListAllItems),
                                              itemsBeingDragged, sourceListId)
            ELSE <<>>
    IN  targetChanges \o sourceChanges

\* sourceListAllItems is an optional argument: <<>> or <<array>>
handleDropToEmptyList(itemsBeingDragged, sourceListId, targetListId, sourceListAllItems) ==
    LET targetChanges ==
            [k \in 1 .. Len(itemsBeingDragged) |->
                ChangeRecord(itemsBeingDragged[k], Some(k - 1),
                             sourceListId, targetListId, "after", Undefined)]
        sourceChanges ==
            IF IsSome(sourceListAllItems)
            THEN generateSourceListReindexing(Val(sourceListAllItems),
                                              itemsBeingDragged, sourceListId)
            ELSE <<>>
    IN  targetChanges \o sourceChanges

\* an on-drop that leaves the source list's survivors alone
handleOnDropNoReindex(itemsBeingDragged, sourceListId, targetListId, targetItemUuid, sourceListAllItems) ==
    [k \in 1 .. Len(itemsBeingDragged) |->
        ChangeRecord(itemsBeingDragged[k], None,
                     sourceListId, targetListId, "on", targetItemUuid)]

handleOnDrop(itemsBeingDragged, sourceListId, targetListId, targetItemUuid, sourceListAllItems) ==
    LET draggedChanges ==
            [k \in 1 .. Len(itemsBeingDragged) |->
                ChangeRecord(itemsBeingDragged[k], None,
                             sourceListId, targetListId, "on", targetItemUuid)]
        sourceChanges ==
            IF sourceListId # targetListId /\ IsSome(sourceListAllItems)
            THEN generateSourceListReindexing(Val(sourceListAllItems),
                                              itemsBeingDragged, sourceListId)
            ELSE <<>>
    IN  draggedChanges \o sourceChanges

\* a virtual order with the dragged items behind all existing ones
virtualItemsAtEnd(itemsBeingDragged, existingItems, insertIndex) ==
       [k \in 1 .. Len(existingItems) |->
            [uuid |-> existingItems[k].uuid, isNew |-> FALSE]]
    \o [k \in 1 .. Len(itemsBeingDragged) |->
            [uuid |-> itemsBeingDragged[k], isNew |-> TRUE]]

\* existing items up to insertIndex, the dragged items, the other existing items
virtualItems(itemsBeingDragged, existingItems, insertIndex) ==
       [k \in 1 .. insertIndex |->
            [uuid |-> existingItems[k].uuid, isNew |-> FALSE]]
    \o [k \in 1 .. Len(itemsBeingDragged) |->
            [uuid |-> itemsBeingDragged[k], isNew |-> TRUE]]
    \o [k \in 1 .. (Len(existingItems) - insertIndex) |->
            [uuid |-> existingItems[insertIndex + k].uuid, isNew |-> FALSE]]

handleCrossListBeforeAfterDrop(itemsBeingDragged, existingItems, insertIndex, dropType, sourceListId, targetListId, targetItemUuid, sourceListAllItems) ==
    LET targetChanges ==
            Concat([k \in 1 .. Len(itemsBeingDragged) + Len(existingItems) |->
                LET item == virtualItems(itemsBeingDragged, existingItems,
                                         insertIndex)[k]
                    newIndex == k - 1
                IN  IF item.isNew
                    THEN <<ChangeRecord(item.uuid, Some(newIndex), sourceListId,
                                        targetListId, dropType, targetItemUuid)>>
                    ELSE LET found == FindIndex(existingItems, item.uuid)
                         IN  IF found > -1
                                /\ At(existingItems, found).originalIndex # newIndex
                             THEN <<ChangeRecord(item.uuid, Some(newIndex), targetListId,
                                                 targetListId, Undefined, Undefined)>>
                             ELSE <<>>])
        sourceChanges ==
            IF IsSome(sourceListAllItems)
            THEN generateSourceListReindexing(Val(sourceListAllItems),
                                              itemsBeingDragged, sourceListId)
            ELSE <<>>
    IN  targetChanges \o sourceChanges

RECURSIVE SortDescending(_)
\* draggedIndices.sort((a, b) => b - a)
SortDescending(idxs) ==
    IF idxs = <<>> THEN <<>>
    ELSE LET m == CHOOSE k \in 1 .. Len(idxs) :
                    \A j \in 1 .. Len(idxs) : idxs[j] <= idxs[k]
         IN  <<idxs[m]>> \o SortDescending(SubSeq(idxs, 1, m - 1)
                                            \o SubSeq(idxs, m + 1, Len(idxs)))

RECURSIVE RemoveDragged(_, _, _)
\* draggedIndices.forEach(idx => removed.unshift(...newItems.splice(idx, 1)))
RemoveDragged(newItems, removed, idxs) ==
    IF idxs = <<>> THEN [newItems |-> newItems, removed |-> removed]
    ELSE RemoveDragged(SpliceOut(newItems, Head(idxs)),
                       SpliceTaken(newItems, Head(idxs)) \o removed,
                       Tail(idxs))

\* on-drop records that carry the zone "after"
onDropChangesAsAfter(draggedItems, draggedOverItem, listId) ==
    [k \in 1 .. Len(draggedItems) |->
        ChangeRecord(draggedItems[k].uuid, None, listId, listId,
                     "after", draggedOverItem.uuid)]

\* the records of the "on" branch of handleSameListReorder
onDropChanges(draggedItems, draggedOverItem, listId) ==
    [k \in 1 .. Len(draggedItems) |->
        ChangeRecord(draggedItems[k].uuid, None, listId, listId,
                     "on", draggedOverItem.uuid)]

\* records for the items that changed their place in the array, given the
\* array before the drop
reorderChangesByPlace(allItems, newItems, draggedItems, draggedOverItem, dropType, listId) ==
    LET draggedUuids == {draggedItems[k].uuid : k \in 1 .. Len(draggedItems)}
    IN  Concat([k \in 1 .. Len(newItems) |->
            LET item == newItems[k]
                newIndex == k - 1
            IN  IF FindIndex(allItems, item.uuid) # newIndex
                THEN IF item.uuid \in draggedUuids
                     THEN <<ChangeRecord(item.uuid, Some(newIndex), listId, listId,
                                IF dropType = "null" THEN "after" ELSE dropType,
                                draggedOverItem.uuid)>>
                     ELSE <<ChangeRecord(item.uuid, Some(newIndex), listId, listId,
                                Undefined, Undefined)>>
                ELSE <<>>])

\* the records of the before/after branch of handleSameListReorder
reorderChanges(allItems, newItems, draggedItems, draggedOverItem, dropType, listId) ==
    LET draggedUuids == {draggedItems[k].uuid : k \in 1 .. Len(draggedItems)}
    IN  Concat([k \in 1 .. Len(newItems) |->
            LET item == newItems[k]
                newIndex == k - 1
            IN  IF item.originalIndex # newIndex
                THEN IF item.uuid \in draggedUuids
                     THEN <<ChangeRecord(item.uuid, Some(newIndex), listId, listId,
                                IF dropType = "null" THEN "after" ELSE dropType,
                                draggedOverItem.uuid)>>
                     ELSE <<ChangeRecord(item.uuid, Some(newIndex), listId, listId,
                                Undefined, Undefined)>>
                ELSE <<>>])

\* dropType is "before", "after", "on" or "null"
handleSameListReorder(draggedItems, allItems, draggedOverItem, dropType, listId) ==
    IF FindIndex(allItems, draggedOverItem.uuid) = -1
    THEN [newItems |-> allItems, changes |-> <<>>]
    ELSE
    LET draggedIndices ==
            SelectSeq([k \in 1 .. Len(draggedItems) |->
                          FindIndex(allItems, draggedItems[k].uuid)],
                      LAMBDA idx : idx > -1)
        cut == RemoveDragged(allItems, <<>>, SortDescending(draggedIndices))
        removed == cut.removed
    IN  IF dropType = "on"
        THEN [newItems |-> cut.newItems \o removed,
              changes |-> onDropChanges(draggedItems, draggedOverItem, listId)]
        ELSE LET insertIndex == FindIndex(cut.newItems, draggedOverItem.uuid)
                 finalInsertIndex ==
                    IF dropType = "after" THEN insertIndex + 1 ELSE insertIndex
                 newItems ==
                    IF insertIndex > -1
                    THEN SpliceIn(cut.newItems, finalInsertIndex, removed)
                    ELSE cut.newItems
             IN  [newItems |-> newItems,
                  changes |-> reorderChanges(allItems, newItems, draggedItems,
                                             draggedOverItem, dropType, listId)]

----------------------------------------------------------------------------
(* State                                                                   *)

\* useState hooks of DragAndDropList, one value per list instance
VARIABLE items
VARIABLE draggedItems
VARIABLE draggedOverItem
VARIABLE selectedItems
VARIABLE dropIndicatorPosition
VARIABLE currentDropType
VARIABLE isDragging
\* props of each instance; they stay fixed while it is mounted.
\* sortingAttribute tells whether the optional prop is configured.
VARIABLE allowedLists
VARIABLE enableMultiSelect
VARIABLE sortingAttribute
VARIABLE dropOption
VARIABLE allowDropOn
\* the object handles the data source of each list can supply, in position order
VARIABLE handles
\* browser: the "application/x-dragdroplist" payload of the gesture
VARIABLE dataTransfer
\* browser: data-drag-source-list / data-drag-allowed-lists per container
VARIABLE domContext
\* browser: the element the gesture started on, and whether drop fired
VARIABLE dragSource
\* browser: the item element the pointer is over (the current drag target)
VARIABLE pointer
\* the value handed to changeJsonAttribute.setValue by the last handler
VARIABLE changeJsonAttribute
\* what the last drop handler saw when it ran (history of the last step)
VARIABLE lastDrop
\* the snapshot the last step loaded, whether the order it replaced was out
\* of position order, and the drag state it reset (history of the last step)
VARIABLE lastLoad
\* What the persistence layer holds, in the scenarios that include it (None
\* in the others): for every object the list it belongs to and its position,
\* for every list whether each batch written since its last snapshot was a
\* fullChange batch, and the number of batches applied.
VARIABLE store
\* the 150 ms click timers that are armed and have not fired, in the order
\* in which they were armed: for each the list, the item, and the isDragging
\* and selectedItems its closure holds
VARIABLE clickTimers

vars == <<items, draggedItems, draggedOverItem, selectedItems,
          dropIndicatorPosition, currentDropType, isDragging,
          allowedLists, enableMultiSelect, sortingAttribute, dropOption,
          allowDropOn, handles, dataTransfer, domContext, dragSource, pointer,
          changeJsonAttribute, lastDrop, lastLoad, store, clickTimers>>

props == <<allowedLists, enableMultiSelect, sortingAttribute, dropOption,
           allowDropOn, handles>>

DropTypes == {"before", "after", "on"}
DropOptions == {"auto", "before", "on", "after"}
ChangeJsonModes == {"fullChange", "targetOnly"}

Reverse(s) == [k \in 1 .. Len(s) |-> s[Len(s) + 1 - k]]

\* The data sources a list can be handed: the first n handles of hs, with
\* positions start, start + step, ... in that order.
Snapshots(hs) ==
    {[available |-> TRUE,
      items |-> [k \in 1 .. n |->
                    [uuid |-> Some(hs[k]),
                     sort |-> Some(start + (k - 1) * step)]]] :
        n \in 0 .. Len(hs),
        start \in 0 .. MaxStart,
        step \in 1 .. MaxStep}

\* number of batches the store applies in a scenario
MaxWrites == 1

\* a store that holds none of the objects of the data source handles
NoStore(handlesOf) ==
    [at |-> [u \in UNION {Range(handlesOf[l]) : l \in Lists} |-> None],
     full |-> [l \in Lists |-> TRUE],
     writes |-> 0]

\* The store after the data source of list l was supplied as snap: a
\* snapshot is what the persistence layer holds for the list at that time.
Supplied(st, l, snap) ==
    IF st = None THEN None ELSE
    LET objects == IF snap.available THEN snap.items ELSE <<>>
        of(u) == {k \in 1 .. Len(objects) : objects[k].uuid = Some(u)}
    IN  [at |-> [u \in DOMAIN st.at |->
                    IF of(u) # {}
                    THEN Some([list |-> l,
                               position |-> objects[CHOOSE k \in of(u) : TRUE].sort])
                    ELSE IF IsSome(st.at[u]) /\ Val(st.at[u]).list = l THEN None
                    ELSE st.at[u]],
         full |-> [st.full EXCEPT ![l] = TRUE],
         writes |-> st.writes]

RECURSIVE Persisted(_, _)
\* The positions after the persistence layer applied the records of a batch
\* in order: an object moves to the record's target list and takes its
\* newIndex as position; a null newIndex leaves the position as it is.
Persisted(at, batch) ==
    IF batch = <<>> THEN at
    ELSE LET c == Head(batch)
             next == IF c.uuid \in DOMAIN at
                     THEN [at EXCEPT ![c.uuid] =
                             Some([list |-> c.targetListId,
                                   position |-> IF IsSome(c.newIndex) THEN c.newIndex
                                                ELSE IF IsSome(at[c.uuid])
                                                THEN Val(at[c.uuid]).position
                                                ELSE None])]
                     ELSE at
         IN  Persisted(next, Tail(batch))

\* the store after the batch handed to setValue (if any) was applied
AfterWrite(st, written, changeJsonMode) ==
    IF st = None THEN st
    ELSE IF ~IsSome(written) THEN st
    ELSE [at |-> Persisted(st.at, Val(written)),
          full |-> IF changeJsonMode = "fullChange" THEN st.full
                   ELSE [l \in Lists |->
                           st.full[l]
                           /\ \A k \in 1 .. Len(Val(written)) :
                                 l \notin {Val(written)[k].sourceListId,
                                           Val(written)[k].targetListId}],
          writes |-> st.writes + 1]

\* the store applies at most MaxWrites batches
Writable(st, written) ==
    IF st = None THEN TRUE
    ELSE IF ~IsSome(written) THEN TRUE
    ELSE st.writes < MaxWrites

\* The data source of list l as the store holds it: the objects stored in
\* the list, each with its stored position, in the order of the handles.
StoredSnapshot(st, l) ==
    LET all == handles["L1"] \o handles["L2"]
        mine == SelectSeq(all, LAMBDA u : IsSome(st.at[u]) /\ Val(st.at[u]).list = l)
    IN  [available |-> TRUE,
         items |-> [k \in 1 .. Len(mine) |->
                       [uuid |-> Some(mine[k]),
                        sort |-> Val(st.at[mine[k]]).position]]]

\* no data source was loaded by the last step
NoLoad ==
    [list |-> "none", snap |-> None, reordered |-> FALSE,
     draggedItems |-> <<>>, draggedOverItem |-> None]

NoDrop ==
    [via |-> "none", list |-> "none", data |-> None, items |-> <<>>,
     draggedItems |-> <<>>, draggedOverItem |-> None, currentDropType |-> "null",
     changeJsonMode |-> "none", allChanges |-> None]

\* The state after both lists are mounted with the given props and data
\* source handles: the mount effect has loaded each list from a snapshot.
Mounting(allowedListsProp, multiSelectProp, sortingProp, dropOptionProp, allowDropOnProp, handlesOf, observed) ==
    /\ allowedLists = allowedListsProp
    /\ enableMultiSelect = multiSelectProp
    /\ sortingAttribute = sortingProp
    /\ dropOption = dropOptionProp
    /\ allowDropOn = allowDropOnProp
    /\ handles = handlesOf
    /\ \E a \in Snapshots(handlesOf["L1"]), b \in Snapshots(handlesOf["L2"]) :
          /\ items = [l \in Lists |->
                        initializeItems(IF l = "L1" THEN a ELSE b, sortingProp[l], l)]
          /\ store = IF observed
                     THEN Supplied(Supplied(NoStore(handlesOf), "L1", a), "L2", b)
                     ELSE None
    /\ draggedItems = [l \in Lists |-> <<>>]
    /\ draggedOverItem = [l \in Lists |-> None]
    /\ selectedItems = [l \in Lists |-> {}]
    /\ dropIndicatorPosition = [l \in Lists |-> "null"]
    /\ currentDropType = [l \in Lists |-> "null"]
    /\ isDragging = [l \in Lists |-> FALSE]
    /\ dataTransfer = None
    /\ domContext = [l \in Lists |-> None]
    /\ dragSource = None
    /\ pointer = None
    /\ changeJsonAttribute = None
    /\ lastDrop = NoDrop
    /\ lastLoad = NoLoad
    /\ clickTimers = <<>>

\* ... in a scenario that leaves the persistence layer out
Mounted(allowedListsProp, multiSelectProp, sortingProp, dropOptionProp, allowDropOnProp, handlesOf) ==
    Mounting(allowedListsProp, multiSelectProp, sortingProp, dropOptionProp, allowDropOnProp, handlesOf, FALSE)

\* One list of up to four items that may send to itself and to the second
\* list, which is always empty.  Multi-select is on, the zone follows the
\* pointer and drops on an item are permitted.
Init ==
    Mounted([l \in Lists |-> IF l = "L1" THEN Str(<<"L1", ",", " ", "L2">>)
                             ELSE NoString],
            [l \in Lists |-> l = "L1"],
            [l \in Lists |-> TRUE],
            [l \in Lists |-> "auto"],
            [l \in Lists |-> TRUE],
            [l \in Lists |-> IF l = "L1" THEN <<"a", "b", "c", "d">> ELSE <<>>])

\* A list of up to three items that may send to the second list only, which
\* holds up to two items and sends nowhere.
InitCross ==
    Mounted([l \in Lists |-> IF l = "L1" THEN Str(<<"L2">>) ELSE NoString],
            [l \in Lists |-> l = "L1"],
            [l \in Lists |-> TRUE],
            [l \in Lists |-> "auto"],
            [l \in Lists |-> TRUE],
            [l \in Lists |-> IF l = "L1" THEN <<"a", "b", "c">>
                             ELSE <<"x", "y">>])

\* A list of at most two items that may send to itself and to the second
\* list, which has at most one item; the zone is forced to "before" on both.
InitRefresh ==
    Mounted([l \in Lists |-> IF l = "L1" THEN Str(<<"L1", ",", "L2">>) ELSE NoString],
            [l \in Lists |-> l = "L1"],
            [l \in Lists |-> TRUE],
            [l \in Lists |-> "before"],
            [l \in Lists |-> FALSE],
            [l \in Lists |-> IF l = "L1" THEN <<"a", "b">> ELSE <<"x">>])

\* A list of at most three items that may send to itself and to the second
\* list, which has at most one item; multi-select is on in the first list,
\* the zone follows the pointer and drops on an item are permitted.
InitBoth ==
    Mounted([l \in Lists |-> IF l = "L1" THEN Str(<<"L1", ",", "L2">>) ELSE NoString],
            [l \in Lists |-> l = "L1"],
            [l \in Lists |-> TRUE],
            [l \in Lists |-> "auto"],
            [l \in Lists |-> TRUE],
            [l \in Lists |-> IF l = "L1" THEN <<"a", "b", "c">> ELSE <<"x">>])

\* Two lists of one item each that may send to each other and to
\* themselves, with every combination of dropOption and allowDropOn.
InitZone ==
    \E options \in [Lists -> DropOptions], allowOn \in [Lists -> BOOLEAN] :
        Mounted([l \in Lists |-> Str(<<"L1", ",", "L2">>)],
                [l \in Lists |-> l = "L1"], [l \in Lists |-> TRUE],
                options, allowOn,
                [l \in Lists |-> IF l = "L1" THEN <<"a">> ELSE <<"x">>])

\* As InitBoth with the zone in two bands (no drops on an item), every
\* object present at the mount, and the persistence layer that applies the
\* written batches.
InitStore ==
    /\ Mounting([l \in Lists |-> IF l = "L1" THEN Str(<<"L1", ",", "L2">>) ELSE NoString],
                [l \in Lists |-> l = "L1"],
                [l \in Lists |-> TRUE],
                [l \in Lists |-> "auto"],
                [l \in Lists |-> FALSE],
                [l \in Lists |-> IF l = "L1" THEN <<"a", "b", "c">> ELSE <<"x">>],
                TRUE)
    /\ \A l \in Lists : Len(items[l]) = Len(handles[l])

\* As InitBoth, with the sorting attribute configured on both lists or on
\* neither.
InitSort ==
    \E sorting \in BOOLEAN :
        Mounted([l \in Lists |-> IF l = "L1" THEN Str(<<"L1", ",", "L2">>) ELSE NoString],
                [l \in Lists |-> l = "L1"],
                [l \in Lists |-> sorting],
                [l \in Lists |-> "auto"],
                [l \in Lists |-> TRUE],
                [l \in Lists |-> IF l = "L1" THEN <<"a", "b", "c">> ELSE <<"x">>])

\* allowed-lists props that are unset, empty, blank, omit the own id of the
\* first list, or name it
OwnTexts ==
    {NoString, Str(<<>>), Str(<<" ">>), Str(<<"L2">>), Str(<<"L2", ",", " ", "L1">>)}

\* A list of two items with one of the props of OwnTexts, and a list of one
\* item that may send to the first list but not to itself.  The zone
\* follows the pointer and drops on an item are permitted.
InitOwn ==
    \E text \in OwnTexts :
        Mounted([l \in Lists |-> IF l = "L1" THEN text ELSE Str(<<"L1">>)],
                [l \in Lists |-> l = "L1"],
                [l \in Lists |-> TRUE],
                [l \in Lists |-> "auto"],
                [l \in Lists |-> TRUE],
                [l \in Lists |-> IF l = "L1" THEN <<"a", "b">> ELSE <<"x">>])

\* every allowed-lists prop of at most MaxTokens tokens, and the unset prop
AllowedTexts ==
    {NoString} \cup
    {Str(t) : t \in UNION {[1 .. n -> Tokens] : n \in 0 .. MaxTokens}}

\* Two lists of at most one item; the first list has an arbitrary
\* allowed-lists prop, the second sends nowhere.
InitPolicy ==
    \E text \in AllowedTexts :
        Mounted([l \in Lists |-> IF l = "L1" THEN text ELSE NoString],
                [l \in Lists |-> l = "L1"],
                [l \in Lists |-> TRUE],
                [l \in Lists |-> "before"],
                [l \in Lists |-> FALSE],
                [l \in Lists |-> IF l = "L1" THEN <<"a">> ELSE <<"x">>])

\* largest position an object of a free snapshot carries
MaxPosition == 2

\* Every data source over the first n handles of hs in which each object
\* carries any position up to MaxPosition or none, so that objects arrive
\* out of position order, with equal positions and without a position.
AnySnapshots(hs) ==
    UNION {{[available |-> TRUE,
             items |-> [k \in 1 .. n |-> [uuid |-> Some(hs[k]), sort |-> sorts[k]]]] :
               sorts \in [1 .. n -> {None} \cup {Some(p) : p \in 0 .. MaxPosition}]} :
           n \in 0 .. Len(hs)}

\* Two lists that are only loaded: L1 reads the sorting attribute, L2 has
\* none configured.
InitLoad ==
    Mounted([l \in Lists |-> NoString], [l \in Lists |-> FALSE],
            [l \in Lists |-> l = "L1"], [l \in Lists |-> "before"],
            [l \in Lists |-> FALSE],
            [l \in Lists |-> IF l = "L1" THEN <<"a", "b", "c">> ELSE <<"x">>])

----------------------------------------------------------------------------
(* domHelpers.ts                                                           *)

\* the containers that carry data-drag-source-list, in document order
DragElements(dom) == SelectSeq(DocumentOrder, LAMBDA l : IsSome(dom[l]))

getDragContextFromDOM(dom) ==
    LET draggedElements == DragElements(dom)
    IN  IF Len(draggedElements) > 0
        THEN Val(dom[draggedElements[Len(draggedElements)]])
        ELSE [sourceListId |-> "", allowedLists |-> <<>>]

\* The list containers are siblings, so no container is a parent of another
\* and the parent-clearing loop removes nothing.
setDragContextOnDOM(dom, element, sourceListId, allowedListsText) ==
    [dom EXCEPT ![element] =
        Some([sourceListId |-> sourceListId, allowedLists |-> allowedListsText])]

clearDragContextFromDOM(dom, element) == [dom EXCEPT ![element] = None]

----------------------------------------------------------------------------
(* DragAndDropList.tsx                                                     *)

Dragging == IsSome(dragSource) /\ ~Val(dragSource).dropped

Rendered(l, uuid) == FindIndex(items[l], uuid) > -1

\* a load that rebuilds the items but keeps the drag state of the list
LoadKeepingDragState(l, snap) ==
    /\ items' = [items EXCEPT ![l] =
                    initializeItems(snap, sortingAttribute[l], l)]
    /\ changeJsonAttribute' = None
    /\ lastDrop' = NoDrop
    /\ store' = Supplied(store, l, snap)
    /\ clickTimers' = clickTimers
    /\ lastLoad' = [list |-> l, snap |-> Some(snap),
                    reordered |-> items[l] # SortByOriginalIndex(items[l]),
                    draggedItems |-> draggedItems[l],
                    draggedOverItem |-> draggedOverItem[l]]
    /\ UNCHANGED <<draggedItems, draggedOverItem, selectedItems, dropIndicatorPosition, currentDropType, isDragging, props, dataTransfer, domContext, dragSource, pointer>>

\* useEffect on [dataSource, uuidAttribute, sortingAttribute, listId]
LoadFrom(l, snap) ==
    /\ items' = [items EXCEPT ![l] =
                    initializeItems(snap, sortingAttribute[l], l)]
    /\ draggedItems' = [draggedItems EXCEPT ![l] = <<>>]
    /\ draggedOverItem' = [draggedOverItem EXCEPT ![l] = None]
    /\ changeJsonAttribute' = None
    /\ lastDrop' = NoDrop
    /\ store' = Supplied(store, l, snap)
    /\ clickTimers' = clickTimers
    /\ lastLoad' = [list |-> l, snap |-> Some(snap),
                    reordered |-> items[l] # SortByOriginalIndex(items[l]),
                    draggedItems |-> draggedItems[l],
                    draggedOverItem |-> draggedOverItem[l]]
    /\ UNCHANGED <<selectedItems, dropIndicatorPosition, currentDropType,
                   isDragging, props, dataTransfer, domContext, dragSource,
                   pointer>>

\* the effect runs with one of the data sources the list can be handed
Load(l) == \E snap \in Snapshots(handles[l]) : LoadFrom(l, snap)

\* the effect runs with any data source over the objects of the list
LoadAny(l) == \E snap \in AnySnapshots(handles[l]) : LoadFrom(l, snap)

\* the data source of list l is supplied again while no gesture is in progress
Refresh(l) == dragSource = None /\ Load(l)

\* The data source of list l is supplied again during a gesture; the effect
\* cannot run between the drop and the dragend event of one gesture.
RefreshDuringDrag(l) == Dragging /\ Load(l)

\* a filter that keeps only the records that name a target item
filterChangesByTarget(changeJsonMode, changes) ==
    IF changeJsonMode = "targetOnly"
    THEN SelectSeq(changes, LAMBDA c : c.targetItemUuid # Undefined)
    ELSE changes

filterChanges(changeJsonMode, changes) ==
    IF changeJsonMode = "targetOnly"
    THEN SelectSeq(changes, LAMBDA c :
            c.dropType # Undefined \/ c.targetItemUuid # Undefined)
    ELSE changes

\* mousedown on item uuid that is not followed by a drag: the 150 ms timer
\* runs with the isDragging and selectedItems of the render of the mousedown
handleItemClick(l, uuid) ==
    /\ enableMultiSelect[l]
    /\ dragSource = None
    /\ Rendered(l, uuid)
    /\ ~isDragging[l]
    /\ selectedItems' =
          [selectedItems EXCEPT ![l] =
              IF uuid \in selectedItems[l]
              THEN selectedItems[l] \ {uuid}
              ELSE selectedItems[l] \cup {uuid}]
    /\ changeJsonAttribute' = None
    /\ store' = store
    /\ clickTimers' = clickTimers
    /\ lastLoad' = NoLoad
    /\ lastDrop' = NoDrop
    /\ UNCHANGED <<items, draggedItems, draggedOverItem,
                   dropIndicatorPosition, currentDropType, isDragging,
                   props, dataTransfer, domContext,
                   dragSource, pointer>>

\* the most click timers that are armed at one time
MaxTimers == 2

\* mousedown on item uuid: the handler arms a timer that is never cleared;
\* its closure holds the isDragging and the selectedItems of this render
onMouseDown(l, uuid) ==
    /\ enableMultiSelect[l]
    /\ dragSource = None
    /\ Rendered(l, uuid)
    /\ Len(clickTimers) < MaxTimers
    /\ clickTimers' = Append(clickTimers,
          [list |-> l, uuid |-> uuid,
           isDragging |-> isDragging[l],
           selectedItems |-> selectedItems[l]])
    /\ changeJsonAttribute' = None
    /\ store' = store
    /\ lastLoad' = NoLoad
    /\ lastDrop' = NoDrop
    /\ UNCHANGED <<items, draggedItems, draggedOverItem, selectedItems,
                   dropIndicatorPosition, currentDropType, isDragging,
                   props, dataTransfer, domContext,
                   dragSource, pointer>>

\* the body of the timer, run with what the closure t holds
clickTimerBody(t, selected) ==
    IF ~t.isDragging
    THEN IF t.uuid \in t.selectedItems
         THEN t.selectedItems \ {t.uuid}
         ELSE t.selectedItems \cup {t.uuid}
    ELSE selected

\* 150 ms after its mousedown the timer that was armed first fires,
\* whatever happened since
clickTimerFires ==
    /\ clickTimers # <<>>
    /\ clickTimers' = Tail(clickTimers)
    /\ \E t \in {Head(clickTimers)} :
          selectedItems' =
             [selectedItems EXCEPT ![t.list] = clickTimerBody(t, selectedItems[t.list])]
    /\ changeJsonAttribute' = None
    /\ store' = store
    /\ lastLoad' = NoLoad
    /\ lastDrop' = NoDrop
    /\ UNCHANGED <<items, draggedItems, draggedOverItem,
                   dropIndicatorPosition, currentDropType, isDragging,
                   props, dataTransfer, domContext,
                   dragSource, pointer>>

\* a drag start that always drags the one item and keeps the selection
handleDragStartSingle(l, k) ==
    /\ dragSource = None
    /\ k \in 1 .. Len(items[l])
    /\ isDragging' = [isDragging EXCEPT ![l] = TRUE]
    /\ domContext' = setDragContextOnDOM(domContext, l, l, allowedLists[l].text)
    /\ draggedItems' = [draggedItems EXCEPT ![l] = <<items[l][k]>>]
    /\ dataTransfer' =
          Some([sourceListId |-> l,
                sourceListAllowedLists |-> allowedLists[l],
                itemUuids |-> <<items[l][k].uuid>>,
                sourceListAllItems |->
                   Some([j \in 1 .. Len(items[l]) |->
                           [uuid |-> items[l][j].uuid,
                            originalIndex |-> items[l][j].originalIndex]])])
    /\ dragSource' = Some([list |-> l, uuid |-> items[l][k].uuid, dropped |-> FALSE])
    /\ pointer' = None
    /\ changeJsonAttribute' = None
    /\ store' = store
    /\ clickTimers' = clickTimers
    /\ lastLoad' = NoLoad
    /\ lastDrop' = NoDrop
    /\ UNCHANGED <<items, draggedOverItem, selectedItems, dropIndicatorPosition, currentDropType, props>>

\* dragstart on the rendered item k of list l
handleDragStart(l, k) ==
    /\ dragSource = None
    /\ k \in 1 .. Len(items[l])
    /\ LET item == items[l][k]
           multi == enableMultiSelect[l] /\ item.uuid \in selectedItems[l]
           itemsToDrag ==
              IF multi
              THEN SelectSeq(items[l], LAMBDA i : i.uuid \in selectedItems[l])
              ELSE <<item>>
           dragData ==
              [sourceListId |-> l,
               sourceListAllowedLists |-> allowedLists[l],
               itemUuids |-> Uuids(itemsToDrag),
               sourceListAllItems |->
                  Some([j \in 1 .. Len(items[l]) |->
                          [uuid |-> items[l][j].uuid,
                           originalIndex |-> items[l][j].originalIndex]])]
       IN  /\ isDragging' = [isDragging EXCEPT ![l] = TRUE]
           /\ domContext' = setDragContextOnDOM(domContext, l, l, allowedLists[l].text)
           /\ draggedItems' = [draggedItems EXCEPT ![l] = itemsToDrag]
           /\ dataTransfer' = Some(dragData)
           /\ selectedItems' =
                 IF ~multi /\ enableMultiSelect[l]
                 THEN [selectedItems EXCEPT ![l] = {}]
                 ELSE selectedItems
           /\ dragSource' = Some([list |-> l, uuid |-> item.uuid, dropped |-> FALSE])
    /\ pointer' = None
    /\ changeJsonAttribute' = None
    /\ store' = store
    /\ clickTimers' = clickTimers
    /\ lastLoad' = NoLoad
    /\ lastDrop' = NoDrop
    /\ UNCHANGED <<items, draggedOverItem, dropIndicatorPosition, currentDropType,
                   props>>

\* the draggedOverItem of list l after a dragover on item, given the
\* draggedOverItem (over) of the render the handler belongs to
handleDragOver(over, l, item) ==
    LET ctx == getDragContextFromDOM(domContext)
        isAllowed == isDropAllowed(Str(ctx.allowedLists), ctx.sourceListId, l)
        sameItem == IsSome(over) /\ Val(over).uuid = item.uuid
    IN  IF isAllowed /\ ~sameItem THEN Some(item)
        ELSE IF ~isAllowed /\ sameItem THEN None
        ELSE over

\* a resolver whose forced "on" gives way when drops on an item are not permitted
getDropZoneOnIfPermitted(option, allowOn, height, offsetY) ==
    IF option # "auto" /\ (option # "on" \/ allowOn) THEN option
    ELSE IF ~allowOn
         THEN IF 2 * offsetY < height THEN "before" ELSE "after"
         ELSE IF 3 * offsetY < height THEN "before"
              ELSE IF 3 * offsetY < 2 * height THEN "on"
              ELSE "after"

\* a resolver whose bands include their lower edge
getDropZoneInclusive(option, allowOn, height, offsetY) ==
    IF option # "auto" THEN option
    ELSE IF ~allowOn
         THEN IF 2 * offsetY <= height THEN "before" ELSE "after"
         ELSE IF 3 * offsetY <= height THEN "before"
              ELSE IF 3 * offsetY <= 2 * height THEN "on"
              ELSE "after"

\* the pointer is offsetY below the top of a rectangle of the given height
getDropZone(option, allowOn, height, offsetY) ==
    IF option # "auto" THEN option
    ELSE IF ~allowOn
         THEN IF 2 * offsetY < height THEN "before" ELSE "after"
         ELSE IF 3 * offsetY < height THEN "before"
              ELSE IF 3 * offsetY < 2 * height THEN "on"
              ELSE "after"

\* What a handler leaves behind for list l: the values passed to the state
\* setters (or the old value when a setter is not called), the batch passed
\* to changeJsonAttribute.setValue (written) and the unfiltered change set.
Outcome(l, newItems, newDragged, newOver, newSelected, newIsDragging, written, allChanges) ==
    [items |-> newItems, draggedItems |-> newDragged, draggedOverItem |-> newOver,
     selectedItems |-> newSelected, isDragging |-> newIsDragging,
     written |-> written, allChanges |-> allChanges]

\* a handler that returned before calling any setter
Untouched(l) ==
    Outcome(l, items[l], draggedItems[l], draggedOverItem[l], selectedItems[l],
            isDragging[l], None, None)

\* an early return that calls no setter
ReturnedEarly(l) ==
    Outcome(l, items[l], draggedItems[l], draggedOverItem[l], selectedItems[l],
            isDragging[l], None, None)

\* the early "setDraggedItems([]); setDraggedOverItem(null); return"
Cleared(l) ==
    Outcome(l, items[l], <<>>, None, selectedItems[l], isDragging[l], None, None)

\* a missing target on a list with items is handled like an empty list
handleCrossListDropAppending(l, itemsBeingDragged, sourceListId, sourceListAllItems, changeJsonMode) ==
    LET over == draggedOverItem[l]
        draggedOverIndex == FindIndex(items[l], Val(over).uuid)
        insertIndex == IF currentDropType[l] = "after"
                       THEN draggedOverIndex + 1 ELSE draggedOverIndex
        allChanges ==
            IF Len(items[l]) = 0 \/ ~IsSome(over)
            THEN Some(handleDropToEmptyList(itemsBeingDragged, sourceListId, l,
                                            sourceListAllItems))
            ELSE IF ~IsSome(over) THEN None
            ELSE IF currentDropType[l] = "on"
            THEN Some(handleOnDrop(itemsBeingDragged, sourceListId, l,
                                   Val(over).uuid, sourceListAllItems))
            ELSE IF draggedOverIndex > -1
            THEN Some(handleCrossListBeforeAfterDrop(
                        itemsBeingDragged, items[l], insertIndex,
                        IF currentDropType[l] = "null" THEN "after"
                        ELSE currentDropType[l],
                        sourceListId, l, Val(over).uuid, sourceListAllItems))
            ELSE Some(<<>>)
    IN  [written |-> IF IsSome(allChanges) /\ Len(Val(allChanges)) > 0
                     THEN Some(filterChanges(changeJsonMode, Val(allChanges)))
                     ELSE None,
         allChanges |-> allChanges]

handleCrossListDrop(l, itemsBeingDragged, sourceListId, sourceListAllItems, changeJsonMode) ==
    LET over == draggedOverItem[l]
        draggedOverIndex == FindIndex(items[l], Val(over).uuid)
        insertIndex == IF currentDropType[l] = "after"
                       THEN draggedOverIndex + 1 ELSE draggedOverIndex
        allChanges ==
            IF Len(items[l]) = 0
            THEN Some(handleDropToEmptyList(itemsBeingDragged, sourceListId, l,
                                            sourceListAllItems))
            ELSE IF ~IsSome(over) THEN None
            ELSE IF currentDropType[l] = "on"
            THEN Some(handleOnDrop(itemsBeingDragged, sourceListId, l,
                                   Val(over).uuid, sourceListAllItems))
            ELSE IF draggedOverIndex > -1
            THEN Some(handleCrossListBeforeAfterDrop(
                        itemsBeingDragged, items[l], insertIndex,
                        IF currentDropType[l] = "null" THEN "after"
                        ELSE currentDropType[l],
                        sourceListId, l, Val(over).uuid, sourceListAllItems))
            ELSE Some(<<>>)
    IN  [written |-> IF IsSome(allChanges) /\ Len(Val(allChanges)) > 0
                     THEN Some(filterChanges(changeJsonMode, Val(allChanges)))
                     ELSE None,
         allChanges |-> allChanges]

\* called with draggedItems non-empty and draggedOverItem set
handleSameListDrop(l, changeJsonMode) ==
    LET draggedOverItemSafe == Val(draggedOverItem[l])
    IN  IF ~isDropAllowed(allowedLists[l], l, l)
        THEN [items |-> items[l], selectedItems |-> selectedItems[l],
              written |-> None, allChanges |-> None]
        ELSE IF SomeUuid(draggedItems[l], draggedOverItemSafe.uuid)
        THEN [items |-> items[l], selectedItems |-> selectedItems[l],
              written |-> None, allChanges |-> None]
        ELSE LET r == handleSameListReorder(draggedItems[l], items[l],
                                            draggedOverItemSafe,
                                            currentDropType[l], l)
                 shouldTriggerAction ==
                    Len(r.changes) > 0
                    /\ (currentDropType[l] = "on" \/ sortingAttribute[l])
             IN  [items |-> r.newItems, selectedItems |-> {},
                  written |-> IF shouldTriggerAction
                              THEN Some(filterChanges(changeJsonMode, r.changes))
                              ELSE None,
                  allChanges |-> Some(r.changes)]

\* a handler that appends the items of an accepted cross-list drop to the
\* displayed list at once
handleDragEndOptimistic(l, data, changeJsonMode) ==
    LET crossListData == data
        isCrossListDrop == IsSome(crossListData)
                           /\ Val(crossListData).sourceListId # l
    IN  IF isCrossListDrop
           /\ ~isDropAllowed(Val(crossListData).sourceListAllowedLists,
                             Val(crossListData).sourceListId, l)
        THEN Cleared(l)
        ELSE IF ~isCrossListDrop
                /\ (Len(draggedItems[l]) = 0 \/ ~IsSome(draggedOverItem[l]))
        THEN Cleared(l)
        ELSE IF isCrossListDrop
        THEN LET r == handleCrossListDrop(l, Val(crossListData).itemUuids,
                                          Val(crossListData).sourceListId,
                                          Val(crossListData).sourceListAllItems,
                                          changeJsonMode)
                 moved == Val(crossListData).itemUuids
             IN  Outcome(l,
                         IF IsSome(r.written)
                         THEN items[l] \o
                              [k \in 1 .. Len(moved) |->
                                  [uuid |-> moved[k],
                                   originalIndex |-> Len(items[l]) + k - 1,
                                   listId |-> l]]
                         ELSE items[l],
                         <<>>, None, selectedItems[l], FALSE,
                         r.written, r.allChanges)
        ELSE LET r == handleSameListDrop(l, changeJsonMode)
             IN  Outcome(l, r.items, <<>>, None, r.selectedItems, FALSE,
                         r.written, r.allChanges)

\* data is the parsed "application/x-dragdroplist" payload, or None
handleDragEnd(l, data, changeJsonMode) ==
    LET crossListData == data
        isCrossListDrop == IsSome(crossListData)
                           /\ Val(crossListData).sourceListId # l
    IN  IF isCrossListDrop
           /\ ~isDropAllowed(Val(crossListData).sourceListAllowedLists,
                             Val(crossListData).sourceListId, l)
        THEN Cleared(l)
        ELSE IF ~isCrossListDrop
                /\ (Len(draggedItems[l]) = 0 \/ ~IsSome(draggedOverItem[l]))
        THEN Cleared(l)
        ELSE IF isCrossListDrop
        THEN LET r == handleCrossListDrop(l, Val(crossListData).itemUuids,
                                          Val(crossListData).sourceListId,
                                          Val(crossListData).sourceListAllItems,
                                          changeJsonMode)
             IN  Outcome(l, items[l], <<>>, None, selectedItems[l], FALSE,
                         r.written, r.allChanges)
        ELSE LET r == handleSameListDrop(l, changeJsonMode)
             IN  Outcome(l, r.items, <<>>, None, r.selectedItems, FALSE,
                         r.written, r.allChanges)

\* the container's onDrop handler
containerOnDrop(l, data, changeJsonMode) ==
    LET hasValidDropData == IsSome(data) /\ Val(data).sourceListId # l
    IN  IF hasValidDropData
           /\ ~isDropAllowed(Val(data).sourceListAllowedLists,
                             Val(data).sourceListId, l)
        THEN Untouched(l)
        ELSE IF ~IsSome(draggedOverItem[l]) /\ ~hasValidDropData
                /\ Len(items[l]) = 0
        THEN Untouched(l)
        \* setDraggedOverItem(items[items.length - 1]) is overwritten by the
        \* setDraggedOverItem(null) of handleDragEnd, which still runs with
        \* the draggedOverItem of the current render
        ELSE handleDragEnd(l, data, changeJsonMode)

\* the state of list l before a drop handler ran
DropRecord(via, l, data, changeJsonMode, out) ==
    [via |-> via, list |-> l, data |-> data, items |-> items[l],
     draggedItems |-> draggedItems[l], draggedOverItem |-> draggedOverItem[l],
     currentDropType |-> currentDropType[l],
     changeJsonMode |-> changeJsonMode, allChanges |-> out.allChanges]

Apply(l, out) ==
    /\ items' = [items EXCEPT ![l] = out.items]
    /\ draggedItems' = [draggedItems EXCEPT ![l] = out.draggedItems]
    /\ draggedOverItem' = [draggedOverItem EXCEPT ![l] = out.draggedOverItem]
    /\ selectedItems' = [selectedItems EXCEPT ![l] = out.selectedItems]
    /\ isDragging' = [isDragging EXCEPT ![l] = out.isDragging]
    /\ changeJsonAttribute' = out.written

Dropped == IsSome(dragSource) /\ Val(dragSource).dropped

----------------------------------------------------------------------------
(* DragDropListItem.tsx                                                    *)

\* the hover state of all lists
Hover ==
    [over |-> draggedOverItem, position |-> dropIndicatorPosition,
     type |-> currentDropType]

\* dragover on item of list l; zone is the result of getDropZone
onDragOver(h, l, item, calculatedDropZone) ==
    [over |-> [h.over EXCEPT ![l] = handleDragOver(h.over[l], l, item)],
     position |-> [h.position EXCEPT ![l] = calculatedDropZone],
     type |-> [h.type EXCEPT ![l] = calculatedDropZone]]

\* a dragleave that resets the hover state of every list
onDragLeaveEverywhere(h, l, uuid) ==
    [over |-> [m \in Lists |-> None],
     position |-> [m \in Lists |-> "null"],
     type |-> [m \in Lists |-> "null"]]

\* a dragleave that resets the zone of the list and keeps its hover target
onDragLeaveKeepingTarget(h, l, uuid) ==
    IF IsSome(h.over[l]) /\ Val(h.over[l]).uuid = uuid
    THEN [over |-> h.over,
          position |-> [h.position EXCEPT ![l] = "null"],
          type |-> [h.type EXCEPT ![l] = "null"]]
    ELSE h

\* dragleave on the item uuid of list l
onDragLeave(h, l, uuid) ==
    IF IsSome(h.over[l]) /\ Val(h.over[l]).uuid = uuid
    THEN [over |-> [h.over EXCEPT ![l] = None],
          position |-> [h.position EXCEPT ![l] = "null"],
          type |-> [h.type EXCEPT ![l] = "null"]]
    ELSE h

\* the browser fires dragleave on the item the pointer was over, when that
\* element is still in the document
LeavePointer(h) ==
    IF IsSome(pointer) /\ Rendered(Val(pointer).list, Val(pointer).uuid)
    THEN onDragLeave(h, Val(pointer).list, Val(pointer).uuid)
    ELSE h

SetHover(h) ==
    /\ draggedOverItem' = h.over
    /\ dropIndicatorPosition' = h.position
    /\ currentDropType' = h.type

\* the zones getDropZone returns for an item of list l, over the pointer
\* offsets within a rectangle of each explored height
Zones(l) ==
    {getDropZone(dropOption[l], allowDropOn[l], height, offsetY) :
        height \in 1 .. MaxHeight, offsetY \in 0 .. MaxHeight}

\* The pointer is over the rendered item k of list l: dragleave on the item
\* it came from (if it came from another item), then dragover on this one.
DragOver(l, k) ==
    /\ Dragging
    /\ k \in 1 .. Len(items[l])
    /\ LET item == items[l][k]
           here == [list |-> l, uuid |-> item.uuid]
           left == IF pointer = Some(here) THEN Hover ELSE LeavePointer(Hover)
       IN  /\ \E calculatedDropZone \in Zones(l) :
                 SetHover(onDragOver(left, l, item, calculatedDropZone))
           /\ pointer' = Some(here)
    /\ changeJsonAttribute' = None
    /\ store' = store
    /\ clickTimers' = clickTimers
    /\ lastLoad' = NoLoad
    /\ lastDrop' = NoDrop
    /\ UNCHANGED <<items, draggedItems, selectedItems, isDragging, props, dataTransfer, domContext, dragSource>>

\* a leave that takes the dragged items out of the displayed list
DragLeaveRemoving ==
    /\ Dragging
    /\ IsSome(pointer)
    /\ SetHover(LeavePointer(Hover))
    /\ pointer' = None
    /\ changeJsonAttribute' = None
    /\ store' = store
    /\ clickTimers' = clickTimers
    /\ lastLoad' = NoLoad
    /\ lastDrop' = NoDrop
    /\ items' = [l \in Lists |->
                    SelectSeq(items[l], LAMBDA i : ~isDraggedItem(i, draggedItems[l]))]
    /\ UNCHANGED <<draggedItems, selectedItems, isDragging, props, dataTransfer, domContext, dragSource>>

\* the pointer leaves the item it was over for a place that is not an item
DragLeave ==
    /\ Dragging
    /\ IsSome(pointer)
    /\ SetHover(LeavePointer(Hover))
    /\ pointer' = None
    /\ changeJsonAttribute' = None
    /\ store' = store
    /\ clickTimers' = clickTimers
    /\ lastLoad' = NoLoad
    /\ lastDrop' = NoDrop
    /\ UNCHANGED <<items, draggedItems, selectedItems, isDragging, props, dataTransfer, domContext, dragSource>>

\* drop on the item the pointer is over: onDrop calls handleDragEnd(e)
onDrop ==
    /\ Dragging
    /\ IsSome(pointer)
    /\ Rendered(Val(pointer).list, Val(pointer).uuid)
    /\ LET l == Val(pointer).list
       IN  \E changeJsonMode \in ChangeJsonModes :
              LET out == handleDragEnd(l, dataTransfer, changeJsonMode)
              IN  /\ Apply(l, out)
                  /\ Writable(store, out.written)
                  /\ store' = AfterWrite(store, out.written, changeJsonMode)
                  /\ clickTimers' = clickTimers
                  /\ lastLoad' = NoLoad
                  /\ lastDrop' = DropRecord("item", l, dataTransfer,
                                            changeJsonMode, out)
    /\ dragSource' = Some([Val(dragSource) EXCEPT !.dropped = TRUE])
    /\ pointer' = None
    /\ UNCHANGED <<dropIndicatorPosition, currentDropType, props, dataTransfer, domContext>>

\* drop inside the container of list l while the pointer is over no item
ContainerDrop(l) ==
    /\ Dragging
    /\ ~(IsSome(pointer) /\ Rendered(Val(pointer).list, Val(pointer).uuid))
    /\ \E changeJsonMode \in ChangeJsonModes :
          LET out == containerOnDrop(l, dataTransfer, changeJsonMode)
          IN  /\ Apply(l, out)
              /\ Writable(store, out.written)
              /\ store' = AfterWrite(store, out.written, changeJsonMode)
              /\ clickTimers' = clickTimers
              /\ lastLoad' = NoLoad
              /\ lastDrop' = DropRecord("container", l, dataTransfer,
                                        changeJsonMode, out)
    /\ dragSource' = Some([Val(dragSource) EXCEPT !.dropped = TRUE])
    /\ pointer' = None
    /\ UNCHANGED <<dropIndicatorPosition, currentDropType, props, dataTransfer, domContext>>

\* A drag that no list started (a link, a file, text of the page) moves
\* over the rendered item k of list l: no container carries a drag context.
ForeignDragOver(l, k) ==
    /\ dragSource = None
    /\ k \in 1 .. Len(items[l])
    /\ \E calculatedDropZone \in Zones(l) :
          SetHover(onDragOver(Hover, l, items[l][k], calculatedDropZone))
    /\ changeJsonAttribute' = None
    /\ store' = store
    /\ clickTimers' = clickTimers
    /\ lastLoad' = NoLoad
    /\ lastDrop' = NoDrop
    /\ UNCHANGED <<items, draggedItems, selectedItems, isDragging, props, dataTransfer, domContext, dragSource, pointer>>

\* ... and leaves that item
ForeignDragLeave(l, k) ==
    /\ dragSource = None
    /\ k \in 1 .. Len(items[l])
    /\ SetHover(onDragLeave(Hover, l, items[l][k].uuid))
    /\ changeJsonAttribute' = None
    /\ store' = store
    /\ clickTimers' = clickTimers
    /\ lastLoad' = NoLoad
    /\ lastDrop' = NoDrop
    /\ UNCHANGED <<items, draggedItems, selectedItems, isDragging, props, dataTransfer, domContext, dragSource, pointer>>

\* ... and is dropped on an item of list l (onItem) or inside its container:
\* getData("application/x-dragdroplist") returns "" or a text JSON.parse
\* rejects, so the handlers run without cross-list data
ForeignDrop(l, onItem) ==
    /\ dragSource = None
    /\ onItem => Len(items[l]) > 0
    /\ \E changeJsonMode \in ChangeJsonModes :
          \E out \in {IF onItem THEN handleDragEnd(l, None, changeJsonMode)
                      ELSE containerOnDrop(l, None, changeJsonMode)} :
              /\ Apply(l, out)
              /\ Writable(store, out.written)
              /\ store' = AfterWrite(store, out.written, changeJsonMode)
              /\ clickTimers' = clickTimers
              /\ lastLoad' = NoLoad
              /\ lastDrop' = DropRecord(IF onItem THEN "item" ELSE "container",
                                        l, None, changeJsonMode, out)
    /\ UNCHANGED <<dropIndicatorPosition, currentDropType, props, dataTransfer, domContext, dragSource, pointer>>

\* A drop of a gesture a list started, on the item under the pointer
\* (onItem) or inside the container of list l, in an environment that does
\* not hand the payload back: getData returns "" or an unparsable text.
DropWithoutData(l, onItem) ==
    /\ Dragging
    /\ LET overItem == IsSome(pointer) /\ Rendered(Val(pointer).list, Val(pointer).uuid)
       IN  IF onItem THEN overItem /\ Val(pointer).list = l ELSE ~overItem
    /\ \E changeJsonMode \in ChangeJsonModes :
          \E out \in {IF onItem THEN handleDragEnd(l, None, changeJsonMode)
                      ELSE containerOnDrop(l, None, changeJsonMode)} :
              /\ Apply(l, out)
              /\ Writable(store, out.written)
              /\ store' = AfterWrite(store, out.written, changeJsonMode)
              /\ clickTimers' = clickTimers
              /\ lastLoad' = NoLoad
              /\ lastDrop' = DropRecord(IF onItem THEN "item" ELSE "container",
                                        l, None, changeJsonMode, out)
    /\ dragSource' = Some([Val(dragSource) EXCEPT !.dropped = TRUE])
    /\ pointer' = None
    /\ UNCHANGED <<dropIndicatorPosition, currentDropType, props, dataTransfer, domContext>>

\* the item the gesture started on is still rendered by its list
SourceRendered ==
    /\ IsSome(dragSource)
    /\ Rendered(Val(dragSource).list, Val(dragSource).uuid)

\* dragend on the item the gesture started on.  After a drop it follows the
\* drop event directly; on a cancel the browser first fires dragleave on the
\* item the pointer is over.
onDragEnd ==
    /\ SourceRendered
    /\ LET l == Val(dragSource).list
           h == IF Dropped THEN Hover ELSE LeavePointer(Hover)
           listContainer == DragElements(domContext)
       IN  /\ draggedItems' = [draggedItems EXCEPT ![l] = <<>>]
           /\ SetHover([over |-> [h.over EXCEPT ![l] = None],
                        position |-> [h.position EXCEPT ![l] = "null"],
                        type |-> [h.type EXCEPT ![l] = "null"]])
           /\ isDragging' = [isDragging EXCEPT ![l] = FALSE]
           /\ selectedItems' = [selectedItems EXCEPT ![l] = {}]
           /\ domContext' =
                 IF Len(listContainer) > 0
                 THEN clearDragContextFromDOM(domContext, listContainer[1])
                 ELSE domContext
    /\ dragSource' = None
    /\ pointer' = None
    /\ dataTransfer' = None
    /\ changeJsonAttribute' = None
    /\ store' = store
    /\ clickTimers' = clickTimers
    /\ lastLoad' = NoLoad
    /\ lastDrop' = NoDrop
    /\ UNCHANGED <<items, props>>

\* The gesture ends while the item it started on is no longer rendered: the
\* dragend event is dispatched on a detached node and reaches no handler.
DragEndDetached ==
    /\ IsSome(dragSource)
    /\ ~SourceRendered
    /\ SetHover(IF Dropped THEN Hover ELSE LeavePointer(Hover))
    /\ dragSource' = None
    /\ pointer' = None
    /\ dataTransfer' = None
    /\ changeJsonAttribute' = None
    /\ store' = store
    /\ clickTimers' = clickTimers
    /\ lastLoad' = NoLoad
    /\ lastDrop' = NoDrop
    /\ UNCHANGED <<items, draggedItems, selectedItems, isDragging, props, domContext>>

----------------------------------------------------------------------------

Next ==
    \/ \E l \in Lists : Refresh(l)
    \/ \E l \in Lists : \E k \in 1 .. Len(items[l]) :
          handleItemClick(l, items[l][k].uuid)
    \/ \E l \in Lists : \E k \in 1 .. Len(items[l]) : handleDragStart(l, k)
    \/ \E l \in Lists : \E k \in 1 .. Len(items[l]) : DragOver(l, k)
    \/ DragLeave
    \/ onDrop
    \/ \E l \in Lists : ContainerDrop(l)
    \/ onDragEnd

\* Spec and SpecCross: the data source of a list is stable while a gesture is
\* in progress (it is supplied again only between gestures).
Spec == Init /\ [][Next]_vars

SpecCross == InitCross /\ [][Next]_vars

\* The events of Next and, in addition, data sources that are supplied again
\* while a gesture is in progress.
NextRefresh ==
    \/ Next
    \/ \E l \in Lists : RefreshDuringDrag(l)
    \/ DragEndDetached

SpecRefresh == InitRefresh /\ [][NextRefresh]_vars

\* same-list and cross-list drops in one scenario
SpecBoth == InitBoth /\ [][Next]_vars

\* every configuration of the zone resolver
SpecZone == InitZone /\ [][Next]_vars

\* The events of Next, drags that no list started (between gestures) and
\* drops that arrive without the payload.
NextForeign ==
    \/ Next
    \/ \E l \in Lists : \E k \in 1 .. Len(items[l]) : ForeignDragOver(l, k)
    \/ \E l \in Lists : \E k \in 1 .. Len(items[l]) : ForeignDragLeave(l, k)
    \/ \E l \in Lists, onItem \in BOOLEAN : ForeignDrop(l, onItem)
    \/ \E l \in Lists, onItem \in BOOLEAN : DropWithoutData(l, onItem)

SpecForeign == InitRefresh /\ [][NextForeign]_vars

\* The gestures of Next between two supplies of the data sources, with a
\* persistence layer that applies the written batches.
NextStore ==
    \/ \E l \in Lists : \E k \in 1 .. Len(items[l]) :
          handleItemClick(l, items[l][k].uuid)
    \/ \E l \in Lists : \E k \in 1 .. Len(items[l]) : handleDragStart(l, k)
    \/ \E l \in Lists : \E k \in 1 .. Len(items[l]) : DragOver(l, k)
    \/ DragLeave
    \/ onDrop
    \/ \E l \in Lists : ContainerDrop(l)
    \/ onDragEnd

SpecStore == InitStore /\ [][NextStore]_vars

\* The events of Next with the click taken apart: the mousedown arms the
\* timer, and the timers fire in the order in which they were armed, at any
\* later step (the timers of the browser run while a drag is in progress).
NextClick ==
    \/ \E l \in Lists : Refresh(l)
    \/ \E l \in Lists : \E k \in 1 .. Len(items[l]) : onMouseDown(l, items[l][k].uuid)
    \/ clickTimerFires
    \/ \E l \in Lists : \E k \in 1 .. Len(items[l]) : handleDragStart(l, k)
    \/ \E l \in Lists : \E k \in 1 .. Len(items[l]) : DragOver(l, k)
    \/ DragLeave
    \/ onDrop
    \/ \E l \in Lists : ContainerDrop(l)
    \/ onDragEnd

SpecClick == InitRefresh /\ [][NextClick]_vars

\* lists with and without the permission to reorder themselves
SpecOwn == InitOwn /\ [][Next]_vars

\* drops with and without the sorting attribute
SpecSort == InitSort /\ [][Next]_vars

\* The browser ends every gesture: the pointer is released or the drag is
\* cancelled, and dragend is dispatched on the node the drag started on.
GestureEnds == WF_vars(onDragEnd) /\ WF_vars(DragEndDetached)

\* SpecBoth and SpecRefresh with gestures that end
SpecBothFair == InitBoth /\ [][Next]_vars /\ GestureEnds

SpecRefreshFair == InitRefresh /\ [][NextRefresh]_vars /\ GestureEnds

SpecPolicy == InitPolicy /\ [][Next]_vars

NextLoad == \E l \in Lists : LoadAny(l)

SpecLoad == InitLoad /\ [][NextLoad]_vars

----------------------------------------------------------------------------
(* Vocabulary of the properties.  A drop is described by lastDrop: the     *)
(* state the handling list was in when the drop event arrived, while the   *)
(* variables hold the state the handler left behind.                       *)

\* the comma-separated text names list l
Names(allowed, l) == \E k \in 1 .. Len(allowed.text) : allowed.text[k] = l

\* number of occurrences of uuid u in a sequence of uuids
Count(us, u) == Cardinality({k \in 1 .. Len(us) : us[k] = u})

\* 0-based place of uuid u in a sequence of uuids without duplicates
Place(us, u) == (CHOOSE k \in 1 .. Len(us) : us[k] = u) - 1

\* the records of the batch handed to the change channel, <<>> if none was
Batch == IF IsSome(changeJsonAttribute) THEN Val(changeJsonAttribute) ELSE <<>>

\* the last step was a drop of items of the list that handled it
SameListDrop ==
    /\ lastDrop.via # "none"
    /\ IsSome(lastDrop.data)
    /\ Val(lastDrop.data).sourceListId = lastDrop.list

\* ... with a non-empty dragged set and a hovered target
SameListOnTarget ==
    /\ SameListDrop
    /\ lastDrop.draggedItems # <<>>
    /\ IsSome(lastDrop.draggedOverItem)

DraggedUuids == Range(Uuids(lastDrop.draggedItems))

TargetUuid == Val(lastDrop.draggedOverItem).uuid

\* ... that the list permits and whose target is not among the dragged items
SameListAccepted ==
    /\ SameListOnTarget
    /\ Names(allowedLists[lastDrop.list], lastDrop.list)
    /\ TargetUuid \notin DraggedUuids

SameListBeforeAfter ==
    SameListAccepted /\ lastDrop.currentDropType \in {"before", "after"}

SameListOn == SameListAccepted /\ lastDrop.currentDropType = "on"

\* the order the same-list before/after rule prescribes: the other items in
\* their order, the dragged ones as one run next to the target
ExpectedOrder ==
    LET before == Uuids(lastDrop.items)
        rest == SelectSeq(before, LAMBDA u : u \notin DraggedUuids)
        run == SelectSeq(before, LAMBDA u : u \in DraggedUuids)
        t == Place(rest, TargetUuid) + 1
        cutAt == IF lastDrop.currentDropType = "before" THEN t - 1 ELSE t
    IN  SubSeq(rest, 1, cutAt) \o run \o SubSeq(rest, cutAt + 1, Len(rest))

----------------------------------------------------------------------------
(* C1 .. C5: drops inside one list (specification Spec)                     *)

\* C1: after a permitted same-list drop with zone before or after on a target
\* that is not dragged, the list shows the non-dragged items in their previous
\* relative order with the dragged items as one contiguous run, in list order,
\* immediately before (zone before) or after (zone after) the target.
C1_SameListOrder ==
    SameListBeforeAfter => Uuids(items[lastDrop.list]) = ExpectedOrder

\* C1 happened: two dragged items that were not neighbours were moved
C1_Witness ==
    /\ SameListBeforeAfter
    /\ Len(lastDrop.draggedItems) = 2
    /\ Place(Uuids(lastDrop.items), lastDrop.draggedItems[2].uuid)
          > Place(Uuids(lastDrop.items), lastDrop.draggedItems[1].uuid) + 1
    /\ Uuids(items[lastDrop.list]) # Uuids(lastDrop.items)

\* every id occurs in the resulting order as often as before the drop
IdsConserved ==
    \A u \in Range(Uuids(lastDrop.items)) \cup Range(Uuids(items[lastDrop.list])) :
        Count(Uuids(items[lastDrop.list]), u) = Count(Uuids(lastDrop.items), u)

\* the batch holds one record for each item of the resulting order that
\* satisfies Moved(item, index), with newIndex = index, and no other record
BatchIsExactly(Moved(_, _)) ==
    LET after == items[lastDrop.list]
    IN  /\ \A k \in 1 .. Len(after) :
              Cardinality({j \in 1 .. Len(Batch) : Batch[j].uuid = after[k].uuid})
                 = IF Moved(after[k], k - 1) THEN 1 ELSE 0
        /\ \A j \in 1 .. Len(Batch) :
              /\ Batch[j].uuid \in Range(Uuids(after))
              /\ Batch[j].newIndex = Some(Place(Uuids(after), Batch[j].uuid))

\* C2 (as amended): after a same-list before/after drop the ids are conserved
\* and, in fullChange mode, the batch holds exactly the items whose resulting
\* index differs from the position they were loaded with (originalIndex),
\* each with newIndex equal to its resulting index.
C2_ReorderConservation ==
    (SameListBeforeAfter /\ lastDrop.changeJsonMode = "fullChange") =>
        /\ IdsConserved
        /\ BatchIsExactly(LAMBDA item, index : item.originalIndex # index)

\* C2 happened: an item stayed at its index and is in the batch all the same
C2_Witness ==
    /\ SameListBeforeAfter
    /\ lastDrop.changeJsonMode = "fullChange"
    /\ \E j \in 1 .. Len(Batch) :
          Place(Uuids(items[lastDrop.list]), Batch[j].uuid)
             = Place(Uuids(lastDrop.items), Batch[j].uuid)

\* C2 as stated: the batch holds exactly the items whose index in the
\* resulting order differs from their index before the drop.
C2_AsStated ==
    (SameListBeforeAfter /\ lastDrop.changeJsonMode = "fullChange") =>
        /\ IdsConserved
        /\ BatchIsExactly(LAMBDA item, index :
                             Place(Uuids(lastDrop.items), item.uuid) # index)

\* C3 as stated: after a permitted same-list drop with zone on, on a target
\* that is not dragged, the displayed order is item by item the order before
\* the drop.
C3_OnDropKeepsOrder ==
    SameListOn => items[lastDrop.list] = lastDrop.items

\* C4: a permitted same-list drop with zone on writes a batch with exactly one
\* record per dragged item and none for any other item; each record has
\* newIndex null, dropType on, the target's id and this list as source and
\* target list.
C4_SameListOnBatch ==
    SameListOn =>
        /\ IsSome(changeJsonAttribute)
        /\ \A u \in DraggedUuids : Count(Uuids(Batch), u) = 1
        /\ \A j \in 1 .. Len(Batch) :
              /\ Batch[j].uuid \in DraggedUuids
              /\ Batch[j].newIndex = None
              /\ Batch[j].dropType = "on"
              /\ Batch[j].targetItemUuid = TargetUuid
              /\ Batch[j].sourceListId = lastDrop.list
              /\ Batch[j].targetListId = lastDrop.list

\* C4 happened: two items were dropped on a third
C4_Witness == SameListOn /\ Len(lastDrop.draggedItems) = 2 /\ Len(Batch) = 2

\* C5: a same-list drop whose hovered target is one of the dragged items, in
\* any zone, writes nothing and leaves the displayed order unchanged.
C5_SelfDropNoOp ==
    (SameListOnTarget /\ TargetUuid \in DraggedUuids) =>
        /\ changeJsonAttribute = None
        /\ items[lastDrop.list] = lastDrop.items

\* C5 happened: a selection of two was dropped on its own second item
C5_Witness ==
    /\ SameListOnTarget
    /\ Len(lastDrop.draggedItems) = 2
    /\ TargetUuid = lastDrop.draggedItems[2].uuid
    /\ lastDrop.currentDropType = "before"

----------------------------------------------------------------------------
(* C6 .. C10: drops of items of another list (specification SpecCross)      *)

\* the last step was a drop of items of another list
CrossListDrop ==
    /\ lastDrop.via # "none"
    /\ IsSome(lastDrop.data)
    /\ Val(lastDrop.data).sourceListId # lastDrop.list

Payload == Val(lastDrop.data)

\* ... that the source list permits, on an empty list or on a hovered target
CrossAccepted ==
    /\ CrossListDrop
    /\ Names(Payload.sourceListAllowedLists, lastDrop.list)
    /\ (lastDrop.items = <<>> \/ IsSome(lastDrop.draggedOverItem))

CrossOnTarget == CrossAccepted /\ lastDrop.items # <<>>

CrossBeforeAfter ==
    CrossOnTarget /\ lastDrop.currentDropType \in {"before", "after"}

CrossOn == CrossOnTarget /\ lastDrop.currentDropType = "on"

CrossEmpty == CrossAccepted /\ lastDrop.items = <<>>

\* the records of a sequence of records that are about uuid u
RecordsOf(records, u) == SelectSeq(records, LAMBDA c : c.uuid = u)

\* the items of the source list that are not dragged
Survivors ==
    {s \in Range(Val(Payload.sourceListAllItems)) :
        s.uuid \notin Range(Payload.itemUuids)}

\* number of survivors with a smaller position than survivor s
Rank(s) == Cardinality({r \in Survivors : r.originalIndex < s.originalIndex})

\* records holds, for every survivor, one record that gives it its rank
\* among the survivors and names the source list as source and target
SurvivorsReindexed(records) ==
    \A s \in Survivors :
        RecordsOf(records, s.uuid)
           = <<ChangeRecord(s.uuid, Some(Rank(s)), Payload.sourceListId,
                            Payload.sourceListId, Undefined, Undefined)>>

\* the order a cross-list before/after drop aims at: the target list's items
\* up to the insertion point, the dragged items, the other items
VirtualOrder ==
    LET existing == Uuids(lastDrop.items)
        t == Place(existing, TargetUuid) + 1
        cutAt == IF lastDrop.currentDropType = "before" THEN t - 1 ELSE t
    IN  SubSeq(existing, 1, cutAt) \o Payload.itemUuids
           \o SubSeq(existing, cutAt + 1, Len(existing))

\* every dragged item has one record: its virtual index, both list ids, the
\* zone and the target
DraggedPlaced ==
    \A u \in Range(Payload.itemUuids) :
        RecordsOf(Batch, u)
           = <<ChangeRecord(u, Some(Place(VirtualOrder, u)), Payload.sourceListId,
                            lastDrop.list, lastDrop.currentDropType, TargetUuid)>>

\* in fullChange mode every item of the target list that satisfies
\* Moved(item, virtual index) has one record with its virtual index and no
\* dropType, and the other items of the target list have no record
ExistingReindexed(Moved(_, _)) ==
    lastDrop.changeJsonMode = "fullChange" =>
        \A k \in 1 .. Len(lastDrop.items) :
            LET item == lastDrop.items[k]
                index == Place(VirtualOrder, item.uuid)
            IN  RecordsOf(Batch, item.uuid)
                   = IF Moved(item, index)
                     THEN <<ChangeRecord(item.uuid, Some(index), lastDrop.list,
                                         lastDrop.list, Undefined, Undefined)>>
                     ELSE <<>>

\* C6 (as amended): a cross-list before/after drop on an item of a non-empty
\* list gives every dragged item a record with its index in the virtual order,
\* the source and target list, the zone and the target; an item of the target
\* list gets a record (virtual index, no dropType) exactly when its virtual
\* index differs from the position it was loaded with.
C6_CrossBeforeAfter ==
    CrossBeforeAfter =>
        /\ DraggedPlaced
        /\ ExistingReindexed(LAMBDA item, index : item.originalIndex # index)

\* C6 happened: two items arrived and an item of the target list that kept
\* its index is in the batch all the same
C6_Witness ==
    /\ CrossBeforeAfter
    /\ lastDrop.changeJsonMode = "fullChange"
    /\ Len(Payload.itemUuids) = 2
    /\ \E k \in 1 .. Len(lastDrop.items) :
          /\ Place(VirtualOrder, lastDrop.items[k].uuid) = k - 1
          /\ RecordsOf(Batch, lastDrop.items[k].uuid) # <<>>

\* C6 as stated: an item of the target list gets a record exactly when its
\* index in the virtual order differs from its index in the list.
C6_AsStated ==
    CrossBeforeAfter =>
        /\ DraggedPlaced
        /\ ExistingReindexed(LAMBDA item, index :
              Place(Uuids(lastDrop.items), item.uuid) # index)

\* C7: every accepted cross-list drop (before, after, on, onto an empty list)
\* produces, for each item of the source list that was not dragged, one
\* record with newIndex = its rank among the survivors in position order
\* (0..n-1 without gaps or duplicates) and the source list as both source and
\* target list; fullChange mode writes these records.
C7_SourceSurvivors ==
    CrossAccepted =>
        /\ IsSome(lastDrop.allChanges)
        /\ SurvivorsReindexed(Val(lastDrop.allChanges))
        /\ lastDrop.changeJsonMode = "fullChange" => SurvivorsReindexed(Batch)

\* C7 happened: the first of three items left and two survivors moved up
C7_Witness ==
    /\ CrossAccepted
    /\ lastDrop.changeJsonMode = "fullChange"
    /\ lastDrop.currentDropType = "on"
    /\ Cardinality(Survivors) = 2
    /\ \A s \in Survivors : Rank(s) # s.originalIndex

\* C8: in every accepted cross-list drop each dragged item is in exactly one
\* record of the batch, that record names the target list as target, and no
\* record that names the source list as target is about a dragged item.
C8_CrossConservation ==
    CrossAccepted =>
        /\ \A u \in Range(Payload.itemUuids) :
              /\ Len(RecordsOf(Batch, u)) = 1
              /\ RecordsOf(Batch, u)[1].targetListId = lastDrop.list
        /\ \A j \in 1 .. Len(Batch) :
              Batch[j].targetListId = Payload.sourceListId
                 => Batch[j].uuid \notin Range(Payload.itemUuids)

\* C8 happened: two items were dropped after an item of the other list
C8_Witness ==
    /\ CrossBeforeAfter
    /\ lastDrop.currentDropType = "after"
    /\ Len(Payload.itemUuids) = 2
    /\ Survivors # {}
    /\ lastDrop.changeJsonMode = "fullChange"

\* C9: a permitted cross-list drop onto an empty list gives the k dragged
\* items the indices 0..k-1 in drag order with dropType after and no target
\* item, and re-indexes the survivors of the source list, whatever zone the
\* target list still holds.
C9_DropToEmptyList ==
    CrossEmpty =>
        /\ \A k \in 1 .. Len(Payload.itemUuids) :
              RecordsOf(Batch, Payload.itemUuids[k])
                 = <<ChangeRecord(Payload.itemUuids[k], Some(k - 1),
                                  Payload.sourceListId, lastDrop.list,
                                  "after", Undefined)>>
        /\ lastDrop.changeJsonMode = "fullChange" => SurvivorsReindexed(Batch)

\* C9 happened: two items were dropped on an empty list that still held the
\* zone of an earlier gesture
C9_Witness ==
    /\ CrossEmpty
    /\ lastDrop.currentDropType \in {"before", "on"}
    /\ Len(Payload.itemUuids) = 2
    /\ Survivors # {}
    /\ lastDrop.changeJsonMode = "fullChange"

\* C10: a cross-list drop with zone on gives every dragged item one record
\* with newIndex null, dropType on and the hovered target; no item of the
\* target list gets a record; the survivors of the source list are re-indexed
\* 0..n-1.
C10_CrossOn ==
    CrossOn =>
        /\ \A u \in Range(Payload.itemUuids) :
              RecordsOf(Batch, u)
                 = <<ChangeRecord(u, None, Payload.sourceListId, lastDrop.list,
                                  "on", TargetUuid)>>
        /\ \A k \in 1 .. Len(lastDrop.items) :
              RecordsOf(Batch, lastDrop.items[k].uuid) = <<>>
        /\ lastDrop.changeJsonMode = "fullChange" => SurvivorsReindexed(Batch)

\* C10 happened: two items were dropped on an item of a list of two
C10_Witness ==
    /\ CrossOn
    /\ Len(Payload.itemUuids) = 2
    /\ Len(lastDrop.items) = 2
    /\ Survivors # {}
    /\ lastDrop.changeJsonMode = "fullChange"

----------------------------------------------------------------------------
(* C11 .. C20                                                               *)

\* the step is a drop event handled by list l
DropStepOn(l) == lastDrop' # NoDrop /\ lastDrop'.list = l

\* the step is a drop, on list l, of items of another list that does not
\* name l among its allowed lists
DisallowedDropStep(l) ==
    /\ DropStepOn(l)
    /\ IsSome(dataTransfer)
    /\ Val(dataTransfer).sourceListId # l
    /\ ~Names(Val(dataTransfer).sourceListAllowedLists, l)

\* C11: a drop on a list T of items dragged from another list S that does not
\* name T among its allowed lists (S may name none) writes nothing and leaves
\* the displayed order of both lists as it was, on an item of T as well as on
\* T's container, whatever T's own allowed lists are.
C11_DisallowedTransfer ==
    [][\A l \in Lists :
          DisallowedDropStep(l) => (changeJsonAttribute' = None /\ items' = items)]_vars

\* C11 happened: an item of the list that sends nowhere was dropped on an
\* item of the list that itself may send
C11_Witness ==
    /\ CrossListDrop
    /\ lastDrop.via = "item"
    /\ ~Names(Payload.sourceListAllowedLists, lastDrop.list)
    /\ allowedLists[lastDrop.list].isSet

\* the part of a text between two neighbouring commas (or the ends of the
\* text) that holds position i, as the pair of its first and last position
IsEntry(text, i, j) ==
    /\ 1 <= i /\ i <= j /\ j <= Len(text)
    /\ \A k \in i .. j : text[k] # ","
    /\ (i = 1 \/ text[i - 1] = ",")
    /\ (j = Len(text) \/ text[j + 1] = ",")

\* some comma-separated entry of the text is the list id l, surrounded by
\* nothing but blanks
HasEntry(text, l) ==
    \E i, j \in 1 .. Len(text) :
        /\ IsEntry(text, i, j)
        /\ \E k \in i .. j :
              /\ text[k] = l
              /\ \A m \in (i .. j) \ {k} : text[m] = " "

\* nothing but blanks (the empty text included)
IsBlank(text) == \A k \in 1 .. Len(text) : text[k] = " "

\* C12: isDropAllowed is false when the source's allowed-lists text is unset,
\* empty or blank; otherwise it is true exactly when the target list id is one
\* of the comma-separated entries after trimming blanks and dropping empty
\* entries; the source list id has no influence.
C12_PermissionPolicy ==
    \A l, source, target \in Lists :
        LET allowed == allowedLists[l]
            result == isDropAllowed(allowed, source, target)
        IN  /\ (~allowed.isSet \/ IsBlank(allowed.text)) => ~result
            /\ result = (allowed.isSet /\ HasEntry(allowed.text, target))
            /\ \A other \in Lists : result = isDropAllowed(allowed, other, target)

\* C12 happened: with an empty entry and a padded entry in its text, the
\* first list's item was accepted as a hover by the second list
C12_Witness ==
    /\ allowedLists["L1"] = Str(<<",", " ", "L2">>)
    /\ IsSome(draggedOverItem["L2"])

\* the step is the dragend event that follows a drop event
DragEndAfterDropStep == Dropped /\ lastDrop # NoDrop /\ dragSource' = None

\* C13 as stated: once a drop event has been handled by a list and the
\* gesture has ended, that list's dragged items are empty, its hovered target
\* is null and its resolved zone (currentDropType and dropIndicatorPosition)
\* is null, for the target list of a cross-list drop as for the source list.
C13_DropCleanup ==
    [][DragEndAfterDropStep =>
          /\ draggedItems'[lastDrop.list] = <<>>
          /\ draggedOverItem'[lastDrop.list] = None
          /\ currentDropType'[lastDrop.list] = "null"
          /\ dropIndicatorPosition'[lastDrop.list] = "null"]_vars

\* the list containers that carry a registry entry
Registered == {l \in Lists : IsSome(domContext[l])}

\* C14 as stated: a registry entry sits on the container of the list whose
\* item started the gesture in progress and carries that list's id and allowed
\* lists; at most one entry exists at any time, and none when no gesture is in
\* progress.
C14_RegistryHygiene ==
    /\ Cardinality(Registered) <= 1
    /\ dragSource = None => Registered = {}
    /\ \A l \in Registered :
          /\ IsSome(dragSource) /\ Val(dragSource).list = l
          /\ Val(domContext[l]) =
                [sourceListId |-> l, allowedLists |-> allowedLists[l].text]

\* the step belongs to a gesture (it starts one, or one is in progress) and
\* is not a drop event
GestureStepWithoutDrop ==
    /\ IsSome(dragSource) \/ IsSome(dragSource')
    /\ ~Dropped
    /\ lastDrop' = NoDrop

\* C15: no step of a gesture other than a drop event (drag start, hover,
\* leave, the dragend of a cancelled gesture) writes to the change channel or
\* changes the displayed order of any list, so a gesture that ends without a
\* drop leaves every list as it was at drag start.
C15_CancelIsNoOp ==
    [][GestureStepWithoutDrop =>
          (items' = items /\ changeJsonAttribute' = None)]_vars

\* C15 happened: a gesture without a drop so far has hovered an item of the
\* other list, which accepted it as target
C15_Witness ==
    /\ Dragging
    /\ IsSome(pointer)
    /\ Val(pointer).list # Val(dragSource).list
    /\ IsSome(draggedOverItem[Val(pointer).list])
    /\ Len(draggedItems[Val(dragSource).list]) = 2

\* the position list l reads from an object: the value of the sorting
\* attribute, where the list has one and the object carries a value
Position(l, object) ==
    IF sortingAttribute[l] /\ IsSome(object.sort) THEN object.sort ELSE None

\* shown holds exactly the objects of the snapshot, each with its position
\* (its array index where it has none) as original index, in ascending order
\* of that index
DisplaysSnapshot(l, snap, shown) ==
    IF ~snap.available THEN shown = <<>>
    ELSE /\ Len(shown) = Len(snap.items)
         /\ \A j \in 1 .. Len(snap.items) :
               \E k \in 1 .. Len(shown) :
                   /\ Some(shown[k].uuid) = snap.items[j].uuid
                   /\ shown[k].listId = l
                   /\ shown[k].originalIndex =
                         IF IsSome(Position(l, snap.items[j]))
                         THEN Val(Position(l, snap.items[j])) ELSE j - 1
         /\ \A k, m \in 1 .. Len(shown) :
               k < m => shown[k].originalIndex <= shown[m].originalIndex

SameSnapshotAgain ==
    /\ lastLoad # NoLoad
    /\ lastLoad' # NoLoad
    /\ lastLoad'.list = lastLoad.list
    /\ lastLoad'.snap = lastLoad.snap

\* C16: every step that supplies a snapshot to a list leaves the list
\* displaying that snapshot in ascending order of position, whatever it
\* displayed before, with no dragged items and no hovered target; and
\* supplying the snapshot of the previous step again leaves the displayed
\* order as it is.
C16_AuthoritativeRefresh ==
    [][lastLoad' # NoLoad =>
          LET l == lastLoad'.list
          IN  /\ DisplaysSnapshot(l, Val(lastLoad'.snap), items'[l])
              /\ draggedItems'[l] = <<>>
              /\ draggedOverItem'[l] = None
              /\ \A other \in Lists \ {l} : items'[other] = items[other]
              /\ SameSnapshotAgain => items' = items]_vars

\* C16 happened: during a gesture a snapshot replaced an order left by an
\* earlier reorder (it did not ascend by original index), while the list had
\* dragged items and a hover target
C16_Witness ==
    /\ lastLoad # NoLoad
    /\ Dragging
    /\ lastLoad.reordered
    /\ lastLoad.draggedItems # <<>>
    /\ IsSome(lastLoad.draggedOverItem)

\* C17: after a load, every object that carries a position is displayed with
\* that position as its original index (position 0 included), an object
\* without a position with its array index, and the displayed order ascends
\* by original index however the objects were ordered in the snapshot.
C17_PositionDrivenLoad ==
    lastLoad # NoLoad =>
        DisplaysSnapshot(lastLoad.list, Val(lastLoad.snap), items[lastLoad.list])

\* C17 happened: three objects that all carry a position were supplied with
\* the object at position 0 last, and one position differs from its array
\* index
C17_Witness ==
    /\ lastLoad # NoLoad
    /\ lastLoad.list = "L1"
    /\ LET objects == Val(lastLoad.snap).items
       IN  /\ Len(objects) = 3
           /\ \A j \in 1 .. 3 : IsSome(objects[j].sort)
           /\ objects[3].sort = Some(0)
           /\ objects[1].sort = Some(2)
           /\ objects[2].sort = Some(2)
           /\ Uuids(items["L1"]) = <<"c", "a", "b">>

\* C18: in every batch written, a record has a null newIndex exactly if its
\* dropType is "on", and every other newIndex is a natural number.
C18_NullIndexIffOn ==
    \A j \in 1 .. Len(Batch) :
        /\ (Batch[j].newIndex = None) <=> (Batch[j].dropType = "on")
        /\ IsSome(Batch[j].newIndex) => Val(Batch[j].newIndex) \in Nat

\* C18 happened: a written batch holds a record of a drop on an item next to
\* a re-indexed record with newIndex 0
C18_Witness ==
    \E j, k \in 1 .. Len(Batch) :
        /\ Batch[j].dropType = "on"
        /\ Batch[j].newIndex = None
        /\ Batch[k].newIndex = Some(0)

\* the uuids the gesture of the last drop carries as its dragged set
GestureDraggedSet == Range(Payload.itemUuids)

Labelled(record) ==
    record.dropType # Undefined \/ record.targetItemUuid # Undefined

\* C19: in every batch written, a record that carries a dropType or a
\* targetItemUuid is a record of an item of the gesture's dragged set; the
\* records of all other items (shifted items of the target list, items left
\* in the source list, displaced items of the same list) carry neither.
C19_OnlyDraggedLabelled ==
    \A j \in 1 .. Len(Batch) :
        Labelled(Batch[j]) => Batch[j].uuid \in GestureDraggedSet

\* C19 happened: a batch of a cross-list drop holds a labelled record of a
\* dragged item, an unlabelled record of an item of the target list and an
\* unlabelled record of an item left in the source list
C19_Witness ==
    /\ CrossListDrop
    /\ \E j, k, m \in 1 .. Len(Batch) :
          /\ Labelled(Batch[j])
          /\ Batch[j].uuid \in GestureDraggedSet
          /\ ~Labelled(Batch[k])
          /\ Batch[k].uuid \in Range(handles[lastDrop.list])
          /\ ~Labelled(Batch[m])
          /\ Batch[m].sourceListId = Payload.sourceListId
          /\ Batch[m].targetListId = Payload.sourceListId
          /\ Batch[m].uuid \notin GestureDraggedSet

\* what the handler of the drop this step makes returns, from the state
\* before the step, when the widget runs in the given mode
DropOutcome(changeJsonMode) ==
    IF lastDrop'.via = "item"
    THEN handleDragEnd(lastDrop'.list, dataTransfer, changeJsonMode)
    ELSE containerOnDrop(lastDrop'.list, dataTransfer, changeJsonMode)

WithoutBatch(out) == [out EXCEPT !.written = None]

\* C20: for every drop, the handler run in targetOnly mode and the handler
\* run in fullChange mode on the same state write at the same time, the
\* targetOnly batch is the fullChange batch restricted to the records that
\* carry a dropType or a targetItemUuid, in the same order, and both leave
\* the same items, dragged items, hover target, selection and dragging flag;
\* the step taken is the one of its mode.
C20_OutputFilter ==
    [][lastDrop' # NoDrop =>
          LET l == lastDrop'.list
              full == DropOutcome("fullChange")
              target == DropOutcome("targetOnly")
              taken == IF lastDrop'.changeJsonMode = "targetOnly"
                       THEN target ELSE full
          IN  /\ IsSome(target.written) <=> IsSome(full.written)
              /\ IsSome(full.written) =>
                    Val(target.written) = SelectSeq(Val(full.written), Labelled)
              /\ WithoutBatch(target) = WithoutBatch(full)
              /\ changeJsonAttribute' = taken.written
              /\ items' = [items EXCEPT ![l] = full.items]
              /\ draggedItems' = [draggedItems EXCEPT ![l] = full.draggedItems]
              /\ draggedOverItem' = [draggedOverItem EXCEPT ![l] = full.draggedOverItem]
              /\ selectedItems' = [selectedItems EXCEPT ![l] = full.selectedItems]
              /\ isDragging' = [isDragging EXCEPT ![l] = full.isDragging]
              /\ UNCHANGED <<dropIndicatorPosition, currentDropType>>]_vars

\* C20 happened: a same-list reorder in targetOnly mode changed the order
\* and wrote a batch that is shorter than the full one and not empty
C20_Witness ==
    /\ SameListDrop
    /\ lastDrop.changeJsonMode = "targetOnly"
    /\ items[lastDrop.list] # lastDrop.items
    /\ Len(Batch) > 0
    /\ Len(Batch) < Len(Val(lastDrop.allChanges))

----------------------------------------------------------------------------
\* C21 .. C30

\* the step starts a gesture
DragStartStep == dragSource = None /\ IsSome(dragSource')

\* C21: a drag start on item X of list l drags the selected items of the
\* list in list order if multi-select is enabled and X is selected (the
\* selection stays), and otherwise exactly X, clearing the selection if
\* multi-select is enabled; the payload published with it carries the list
\* id, its allowed lists, the dragged ids and the id and original index of
\* every item of the list.
C21_DragStartPayload ==
    [][DragStartStep =>
          LET l == Val(dragSource').list
              X == Val(dragSource').uuid
              whole == enableMultiSelect[l] /\ X \in selectedItems[l]
              dragged == draggedItems'[l]
              data == Val(dataTransfer')
          IN  /\ whole =>
                    /\ dragged = SelectSeq(items[l], LAMBDA i : i.uuid \in selectedItems[l])
                    /\ selectedItems' = selectedItems
              /\ ~whole =>
                    /\ Uuids(dragged) = <<X>>
                    /\ dragged[1] \in Range(items[l])
                    /\ selectedItems'[l] = IF enableMultiSelect[l] THEN {} ELSE selectedItems[l]
              /\ data.sourceListId = l
              /\ data.sourceListAllowedLists = allowedLists[l]
              /\ data.itemUuids = Uuids(dragged)
              /\ IsSome(data.sourceListAllItems)
              /\ Len(Val(data.sourceListAllItems)) = Len(items[l])
              /\ \A j \in 1 .. Len(items[l]) :
                    /\ Val(data.sourceListAllItems)[j].uuid = items[l][j].uuid
                    /\ Val(data.sourceListAllItems)[j].originalIndex = items[l][j].originalIndex]_vars

\* C21 happened: a gesture started on a selected item carries two selected
\* items although three are in the list
C21_Witness ==
    /\ Dragging
    /\ IsSome(dataTransfer)
    /\ LET l == Val(dragSource).list
       IN  /\ enableMultiSelect[l]
           /\ Val(dragSource).uuid \in selectedItems[l]
           /\ Len(Val(dataTransfer).itemUuids) = 2
           /\ Len(items[l]) = 3
           /\ Val(dataTransfer).itemUuids = Uuids(draggedItems[l])

\* rectangle heights and pointer offsets, the latter also above and below
\* the rectangle
Heights == 0 .. MaxHeight

Offsets == (0 - MaxHeight) .. (2 * MaxHeight)

\* C22: with dropOption "before", "on" or "after" the resolver returns the
\* option for every height and offset, whether or not drops on an item are
\* permitted, and a hover never leaves another zone on the list.
C22_ForcedZone ==
    \A l \in Lists :
        dropOption[l] # "auto" =>
            /\ \A height \in Heights, offsetY \in Offsets, allowOn \in BOOLEAN :
                  getDropZone(dropOption[l], allowOn, height, offsetY) = dropOption[l]
            /\ Zones(l) = {dropOption[l]}
            /\ currentDropType[l] \in {"null", dropOption[l]}
            /\ dropIndicatorPosition[l] \in {"null", dropOption[l]}

\* C22 happened: a list that forces "on" without permitting drops on an item
\* is hovered and holds the zone "on"
C22_Witness ==
    \E l \in Lists :
        /\ dropOption[l] = "on"
        /\ ~allowDropOn[l]
        /\ IsSome(pointer)
        /\ Val(pointer).list = l
        /\ currentDropType[l] = "on"

\* C23: in auto mode the resolver returns, for every height and offset,
\* "before" below half the height and "after" otherwise if drops on an item
\* are not permitted, and "before" below a third, "on" from a third to below
\* two thirds and "after" from two thirds on if they are; a list that does
\* not permit drops on an item never holds the zone "on".
C23_AutoZone ==
    \A l \in Lists :
        dropOption[l] = "auto" =>
            /\ \A height \in Heights, offsetY \in Offsets :
                  LET zone == getDropZone("auto", allowDropOn[l], height, offsetY)
                  IN  /\ zone \in DropTypes
                      /\ ~allowDropOn[l] =>
                            /\ zone # "on"
                            /\ (zone = "before") <=> (2 * offsetY < height)
                      /\ allowDropOn[l] =>
                            /\ (zone = "before") <=> (3 * offsetY < height)
                            /\ (zone = "on") <=>
                                  (height <= 3 * offsetY /\ 3 * offsetY < 2 * height)
                            /\ (zone = "after") <=> (3 * offsetY >= 2 * height)
            /\ ~allowDropOn[l] => currentDropType[l] # "on"

\* C23 happened: one list resolves in two bands and holds "after", the other
\* resolves in three bands and holds "on"
C23_Witness ==
    \E l, m \in Lists :
        /\ dropOption[l] = "auto" /\ ~allowDropOn[l] /\ currentDropType[l] = "after"
        /\ dropOption[m] = "auto" /\ allowDropOn[m] /\ currentDropType[m] = "on"

\* the step is a hover event: the gesture goes on with the same drag source
\* and no data source is loaded
HoverStep ==
    /\ IsSome(dragSource)
    /\ dragSource' = dragSource
    /\ lastLoad' = NoLoad

\* the lists of the item the pointer leaves and of the item it moves onto
UnderPointer ==
    {l \in Lists : \/ IsSome(pointer) /\ Val(pointer).list = l
                   \/ IsSome(pointer') /\ Val(pointer').list = l}

\* C24: a hover event (dragover on an item, dragleave from an item) writes
\* nothing, changes no list's order, dragged items, selection, payload or
\* registry entry, and changes the hovered target and the zone only of the
\* lists whose items the pointer leaves or moves onto.
C24_HoverIsAdvisory ==
    [][HoverStep =>
          /\ changeJsonAttribute' = None
          /\ UNCHANGED <<items, draggedItems, selectedItems, isDragging, dataTransfer, domContext, props>>
          /\ \A l \in Lists \ UnderPointer :
                /\ draggedOverItem'[l] = draggedOverItem[l]
                /\ currentDropType'[l] = currentDropType[l]
                /\ dropIndicatorPosition'[l] = dropIndicatorPosition[l]]_vars

\* C24 happened: the pointer is over an item of the list the drag started
\* in, which is the hover target with zone "on", while the other list still
\* holds a zone from an earlier hover
C24_Witness ==
    /\ Dragging
    /\ IsSome(pointer)
    /\ Val(pointer).list = Val(dragSource).list
    /\ draggedOverItem[Val(pointer).list] # None
    /\ Val(draggedOverItem[Val(pointer).list]).uuid = Val(pointer).uuid
    /\ currentDropType[Val(pointer).list] = "on"
    /\ \E l \in Lists \ {Val(pointer).list} : currentDropType[l] # "null"

\* the last step was a drop whose payload was missing or unparsable
DropWithoutPayload == lastDrop # NoDrop /\ lastDrop.data = None

\* the list that handled the last drop did not start the gesture
NotTheDragSource == dragSource = None \/ Val(dragSource).list # lastDrop.list

\* C25: a drop whose payload is missing or unparsable, on an item or inside
\* the container of a list that did not start the drag, writes nothing,
\* leaves the order of the list as it was and leaves the list without
\* dragged items and without hover target.
C25_MalformedPayload ==
    (DropWithoutPayload /\ NotTheDragSource) =>
        /\ changeJsonAttribute = None
        /\ items[lastDrop.list] = lastDrop.items
        /\ draggedItems[lastDrop.list] = <<>>
        /\ draggedOverItem[lastDrop.list] = None

\* C25 happened: such a drop arrived on an item of a list that held a hover
\* target
C25_Witness ==
    /\ DropWithoutPayload
    /\ NotTheDragSource
    /\ lastDrop.via = "item"
    /\ IsSome(lastDrop.draggedOverItem)

\* the last step was a cross-list drop the source list permits, on a list
\* with items whose hover target was null or not one of its items
MissingTarget ==
    /\ CrossListDrop
    /\ Names(Payload.sourceListAllowedLists, lastDrop.list)
    /\ lastDrop.items # <<>>
    /\ \/ lastDrop.draggedOverItem = None
       \/ FindIndex(lastDrop.items, Val(lastDrop.draggedOverItem).uuid) = -1

\* C26: a permitted cross-list drop on a list with items whose hover target
\* is null or is not an item of the list writes nothing, leaves the order as
\* it was and leaves the list without dragged items, without hover target
\* and not dragging; and the hover target of a list is at all times one of
\* the items it displays.
C26_MissingTarget ==
    /\ \A l \in Lists :
          IsSome(draggedOverItem[l]) => Rendered(l, Val(draggedOverItem[l]).uuid)
    /\ MissingTarget =>
          /\ changeJsonAttribute = None
          /\ items[lastDrop.list] = lastDrop.items
          /\ draggedItems[lastDrop.list] = <<>>
          /\ draggedOverItem[lastDrop.list] = None
          /\ ~isDragging[lastDrop.list]

\* C26 happened: a permitted drop of two items arrived inside the container
\* of the other list, which has items, with no hover target
C26_Witness ==
    /\ MissingTarget
    /\ lastDrop.via = "container"
    /\ lastDrop.draggedOverItem = None
    /\ Len(Payload.itemUuids) = 2

\* the order in which list l shows the objects the store holds for it when
\* its data source is supplied again
StoredOrder(l) ==
    CHOOSE order \in {Uuids(initializeItems(snap, TRUE, l)) :
                         snap \in {StoredSnapshot(store, l)}} : TRUE

\* the objects of sequence s that are among those of sequence t
Among(s, t) == SelectSeq(s, LAMBDA u : u \in Range(t))

\* the store and list l agree on the order of the objects both hold
StoredAsDisplayed(l) ==
    \E stored \in {StoredOrder(l)}, shown \in {Uuids(items[l])} :
        Among(stored, shown) = Among(shown, stored)

\* list l shows an order an earlier drop gave it: not the order of the
\* positions it was loaded with
Reordered(l) == items[l] # SortByOriginalIndex(items[l])

\* a drop in fullChange mode of items dragged from list l, after which the
\* store has applied fullChange batches only to the list
FullChangeDropFrom(l) ==
    /\ lastDrop'.via # "none"
    /\ IsSome(lastDrop'.data)
    /\ Val(lastDrop'.data).sourceListId = l
    /\ lastDrop'.changeJsonMode = "fullChange"
    /\ store'.full[l]

\* C27: when a list that an earlier drop reordered (and whose data source
\* was not supplied again since) is the source of a further drop in
\* fullChange mode, same-list or cross-list, and the store applied each
\* batch written for the list in order, then after the drop the store holds
\* the objects of the list in the order the list displays them.
C27_StoredOrder ==
    [][\A l \in Lists :
          FullChangeDropFrom(l) /\ Reordered(l) /\ StoredAsDisplayed(l)
              => StoredAsDisplayed(l)']_vars

\* list l displays what the store holds for it: it was just loaded from an
\* authoritative snapshot
Fresh(l) ==
    \E snap \in {StoredSnapshot(store, l)} :
        items[l] = initializeItems(snap, sortingAttribute[l], l)

\* the store holds the objects of list l at the positions 0 .. len - 1
StoredContiguous(l) ==
    \E snap \in {StoredSnapshot(store, l)} :
        \E reloaded \in {initializeItems(snap, TRUE, l)} :
            \A k \in 1 .. Len(reloaded) : reloaded[k].originalIndex = k - 1

\* a before/after drop on list l of items dragged from list from, both just
\* loaded, that writes a fullChange batch
FreshDrop(from, l) ==
    /\ lastDrop'.via # "none"
    /\ lastDrop'.list = l
    /\ IsSome(lastDrop'.data)
    /\ Val(lastDrop'.data).sourceListId = from
    /\ lastDrop'.currentDropType \in {"before", "after"}
    /\ lastDrop'.changeJsonMode = "fullChange"
    /\ changeJsonAttribute' # None
    /\ Fresh(from) /\ Fresh(l)

\* C28: after a before/after drop, same-list or cross-list, on lists just
\* loaded from an authoritative snapshot, the store that applied every
\* newIndex of the fullChange batch holds the objects of each affected list
\* at the positions 0 .. len - 1, and after a same-list drop a reload gives
\* the list the order it displays.
C28_RoundTrip ==
    [][\A from \in Lists, l \in Lists :
          FreshDrop(from, l) =>
              /\ StoredContiguous(from)'
              /\ StoredContiguous(l)'
              /\ from = l => StoredOrder(l)' = Uuids(items'[l])]_vars

\* C28 happened: two items were dragged from a list loaded with the
\* positions 0, 2, 4 and dropped before or after the item of the other list;
\* the store applied the fullChange batch and holds both lists at the
\* positions 0 .. len - 1
C28_Witness ==
    /\ CrossListDrop
    /\ lastDrop.changeJsonMode = "fullChange"
    /\ lastDrop.currentDropType \in {"before", "after"}
    /\ changeJsonAttribute # None
    /\ Len(Payload.itemUuids) = 2
    /\ \E k \in 1 .. Len(Val(Payload.sourceListAllItems)) :
          Val(Payload.sourceListAllItems)[k].originalIndex = 4
    /\ store.writes = 1
    /\ Len(StoredOrder("L1")) = 1 /\ Len(StoredOrder("L2")) = 3
    /\ \A l \in Lists : StoredContiguous(l)

\* a gesture that started in list l is in progress
DraggingFrom(l) == IsSome(dragSource) /\ Val(dragSource).list = l

\* the step is a drop on list l of items dragged from list l
SameListDropOn(l) ==
    /\ lastDrop'.via # "none"
    /\ lastDrop'.list = l
    /\ IsSome(lastDrop'.data)
    /\ Val(lastDrop'.data).sourceListId = l

SameListTaken ==
    /\ SameListDrop
    /\ Names(allowedLists[lastDrop.list], lastDrop.list)
    /\ lastDrop.draggedItems # <<>>
    /\ IsSome(lastDrop.draggedOverItem)
    /\ ~SomeUuid(lastDrop.draggedItems, Val(lastDrop.draggedOverItem).uuid)

\* the last step was a permitted drop of items of another list on a list
\* that is empty or whose hover target is one of its items
CrossListTaken ==
    /\ CrossListDrop
    /\ Names(Payload.sourceListAllowedLists, lastDrop.list)
    /\ Payload.itemUuids # <<>>
    /\ \/ lastDrop.items = <<>>
       \/ /\ IsSome(lastDrop.draggedOverItem)
          /\ FindIndex(lastDrop.items, Val(lastDrop.draggedOverItem).uuid) > -1

\* without a sorting attribute a same-list drop that is not on an item
\* writes nothing
C30_NoSortingNoWrite ==
    SameListDrop /\ ~sortingAttribute[lastDrop.list] /\ lastDrop.currentDropType # "on"
        => changeJsonAttribute = None

\* a same-list drop on an item and a cross-list drop write their batch with
\* and without a sorting attribute
C30_OthersWrite ==
    /\ SameListTaken /\ lastDrop.currentDropType = "on" => changeJsonAttribute # None
    /\ CrossListTaken => changeJsonAttribute # None

\* with a sorting attribute a same-list before/after drop that gave an item
\* another index writes a batch
C30_SortingWrites ==
    /\ SameListTaken
    /\ sortingAttribute[lastDrop.list]
    /\ lastDrop.currentDropType \in {"before", "after"}
    /\ Uuids(items[lastDrop.list]) # Uuids(lastDrop.items)
    => changeJsonAttribute # None

\* C30: without a sorting attribute a same-list before/after drop never
\* writes, while a same-list drop on an item and every cross-list drop still
\* write their batch; with a sorting attribute every same-list before/after
\* drop that changes the index of at least one item writes a batch.
C30_SortingGate ==
    /\ C30_NoSortingNoWrite
    /\ C30_OthersWrite
    /\ C30_SortingWrites

\* no gesture is in progress, list l has no dragged items and is not
\* dragging, and no list has a hover target
IdleAfterDragFrom(l) ==
    /\ dragSource = None
    /\ draggedItems[l] = <<>>
    /\ ~isDragging[l]
    /\ \A m \in Lists : draggedOverItem[m] = None

\* C31: every gesture resolves: once a drag has started in a list and the
\* gesture ends, the system reaches a state without gesture in which that
\* list has an empty dragged set and is not dragging and no list has a hover
\* target.
C31_GestureResolves ==
    \A l \in Lists : DraggingFrom(l) ~> IdleAfterDragFrom(l)

\* the records of the batch that name a target item and carry the label
\* before or after (the records of a drop on an empty list name no target)
SideRecords ==
    SelectSeq(Batch, LAMBDA c : /\ c.dropType \in {"before", "after"}
                                /\ c.targetItemUuid # Undefined)

\* the uuids of the items that were dropped
DroppedUuids ==
    IF CrossListDrop THEN Range(Payload.itemUuids) ELSE DraggedUuids

\* 0-based index at which the run of dropped items starts: in the order
\* the list displays after a same-list drop, by the newIndex written after
\* a cross-list drop
RunStart ==
    IF ~CrossListDrop
    THEN CHOOSE n \in 0 .. Len(items[lastDrop.list]) - 1 :
            /\ items[lastDrop.list][n + 1].uuid \in DroppedUuids
            /\ \A k \in 1 .. n : items[lastDrop.list][k].uuid \notin DroppedUuids
    ELSE CHOOSE n \in 0 .. Len(lastDrop.items) :
            /\ \E j \in 1 .. Len(Batch) :
                  Batch[j].uuid \in DroppedUuids /\ Batch[j].newIndex = Some(n)
            /\ \A j \in 1 .. Len(Batch) :
                  Batch[j].uuid \in DroppedUuids => Val(Batch[j].newIndex) >= n

\* 0-based index of the target among the items of the list that were not
\* dropped
TargetStart ==
    Place(SelectSeq(Uuids(lastDrop.items), LAMBDA u : u \notin DroppedUuids),
          TargetUuid)

\* C32: a list has a hover target only while it has a resolved zone, and in
\* every batch of a drop next to a target the label before or after on the
\* records of the dropped items is the zone of the drop and the side of the target on which the run
\* of dropped items was inserted: labelled before the run takes the place
\* of the target, labelled after it starts right behind the target.
C32_ZoneAndRecordAgree ==
    /\ \A l \in Lists : IsSome(draggedOverItem[l]) => currentDropType[l] # "null"
    /\ SideRecords # <<>> =>
          /\ \A j \in 1 .. Len(SideRecords) :
                /\ SideRecords[j].dropType = lastDrop.currentDropType
                /\ SideRecords[j].uuid \in DroppedUuids
          /\ RunStart = IF SideRecords[1].dropType = "before"
                        THEN TargetStart ELSE TargetStart + 1

\* C32 happened: two items were dropped after an item of their own list in
\* fullChange mode; their records are labelled after and the run starts
\* right behind the target
C32_Witness ==
    /\ SameListDrop
    /\ lastDrop.changeJsonMode = "fullChange"
    /\ Len(SideRecords) = 2
    /\ SideRecords[1].dropType = "after"
    /\ RunStart = TargetStart + 1

\* C33: every batch handed to the change channel, in fullChange and in
\* targetOnly mode, holds at least one record.
C33_NoEmptyBatch ==
    IsSome(changeJsonAttribute) => Len(Val(changeJsonAttribute)) > 0

\* the step in which a click timer fires
Fires == Len(clickTimers') < Len(clickTimers)

\* the toggle of item uuid in the set selected
Toggled(selected, uuid) ==
    IF uuid \in selected THEN selected \ {uuid} ELSE selected \cup {uuid}

\* C34: a click timer that fires after a drag started behind its mousedown
\* (the drag is still in progress) leaves the selection as it is, and a
\* timer that toggles computes the toggle from the selection as it is when
\* the timer fires.
C34_ClickVersusDrag ==
    [][Fires =>
          \E t \in {Head(clickTimers)} :
             /\ (~t.isDragging /\ isDragging[t.list]) =>
                   selectedItems' = selectedItems
             /\ selectedItems' # selectedItems =>
                   selectedItems'[t.list] = Toggled(selectedItems[t.list], t.uuid)]_vars

\* C34, first part only: no toggle while the drag is in progress
C34_NoToggleInDrag ==
    [][Fires =>
          \E t \in {Head(clickTimers)} :
             (~t.isDragging /\ isDragging[t.list]) =>
                selectedItems' = selectedItems]_vars

\* C34, the case that holds: a timer whose mousedown was followed by no
\* other event toggles the item in the current selection
C34_UndisturbedClick ==
    [][Fires =>
          \E t \in {Head(clickTimers)} :
             (t.selectedItems = selectedItems[t.list] /\ ~isDragging[t.list]
                                                      /\ ~t.isDragging) =>
                selectedItems'[t.list] = Toggled(selectedItems[t.list], t.uuid)]_vars

\* the last step was a permitted drop of items of a list on the container of
\* that list while the list showed items, hovered none of them, and its
\* last item was not among the dragged ones
EmptyAreaDrop ==
    /\ SameListDrop
    /\ lastDrop.via = "container"
    /\ Names(allowedLists[lastDrop.list], lastDrop.list)
    /\ lastDrop.draggedItems # <<>>
    /\ ~IsSome(lastDrop.draggedOverItem)
    /\ lastDrop.items # <<>>
    /\ lastDrop.items[Len(lastDrop.items)].uuid \notin DraggedUuids

\* C35: after a permitted same-list drop on the container of a non-empty
\* list with no item hovered, the dragged items are the last items of the
\* list, the other items keep their order in front of them, and a batch was
\* written.
C35_DropOnEmptyArea ==
    EmptyAreaDrop =>
       \E now \in {Uuids(items[lastDrop.list])} :
          /\ SelectSeq(now, LAMBDA u : u \notin DraggedUuids)
                = SelectSeq(Uuids(lastDrop.items), LAMBDA u : u \notin DraggedUuids)
          /\ \A j \in 1 .. Len(now) :
                now[j] \in DraggedUuids <=> j > Len(now) - Len(lastDrop.draggedItems)
          /\ IsSome(changeJsonAttribute)

\* C35, what the handler does: the drop leaves the order as it was and
\* writes nothing
C35_EmptyAreaIgnored ==
    EmptyAreaDrop =>
       /\ items[lastDrop.list] = lastDrop.items
       /\ ~IsSome(changeJsonAttribute)
       /\ draggedItems[lastDrop.list] = <<>>

C35_EmptyAreaReached == EmptyAreaDrop

\* what a drag start on list l captures of the items its list displays now
Membership(l) ==
    [j \in 1 .. Len(items[l]) |->
        [uuid |-> items[l][j].uuid, originalIndex |-> items[l][j].originalIndex]]

\* a gesture from list l is in progress, no drop has ended it, and a snapshot
\* was supplied to l since the drag start: the dragged items of l were reset
\* or l no longer displays what the drag start captured
RefreshedSinceStart(l) ==
    /\ Dragging
    /\ DraggingFrom(l)
    /\ \/ draggedItems[l] = <<>>
       \/ Val(dataTransfer).sourceListAllItems # Some(Membership(l))

\* the records of batch for objects that stay in list l
StayingIn(batch, l) == SelectSeq(batch, LAMBDA c : c.targetListId = l)

\* records number the objects of captured that are not in moved from 0 on,
\* in ascending order of the original index captured with them
ReindexesSurvivors(records, captured, moved) ==
    \E survivors \in {SelectSeq(captured, LAMBDA i : i.uuid \notin moved)} :
       /\ Len(records) = Len(survivors)
       /\ Range(Uuids(records)) = Range(Uuids(survivors))
       /\ \A j \in 1 .. Len(records) : records[j].newIndex = Some(j - 1)
       /\ \A j \in 1 .. Len(records), k \in 1 .. Len(survivors) :
             records[j].uuid = survivors[k].uuid =>
                /\ Cardinality({n \in 1 .. Len(survivors) :
                      survivors[n].originalIndex < survivors[k].originalIndex}) <= j - 1
                /\ Cardinality({n \in 1 .. Len(survivors) :
                      survivors[n].originalIndex <= survivors[k].originalIndex}) >= j

\* C36: a drop that follows a snapshot supplied to the source list during
\* the gesture: on the source list it writes nothing and leaves the list
\* displaying what the snapshot loaded; on another list that accepts it, the
\* records for the objects that stay in the source list number the objects
\* captured at the drag start without the dragged ones, not the objects the
\* source list displays now.  Between the snapshot and the drop only
\* another snapshot changes what the source list displays.
C36_RefreshDuringDrag ==
    [][\A l \in Lists :
          RefreshedSinceStart(l) =>
             /\ lastLoad'.list # l => items'[l] = items[l]
             /\ (lastDrop'.via # "none" /\ lastDrop'.list = l) =>
                   ~IsSome(changeJsonAttribute')
             /\ (lastDrop'.via # "none" /\ lastDrop'.list # l
                                        /\ IsSome(changeJsonAttribute')) =>
                   \E data \in {Val(dataTransfer)} :
                      ReindexesSurvivors(StayingIn(Val(lastDrop'.allChanges), l),
                                         Val(data.sourceListAllItems),
                                         Range(data.itemUuids))]_vars

\* C36 happened: an accepted cross-list drop wrote a record for an object
\* that a snapshot supplied during the gesture had removed from the source
\* list
C36_Witness ==
    /\ CrossListDrop
    /\ IsSome(changeJsonAttribute)
    /\ \E j \in 1 .. Len(Val(lastDrop.allChanges)) :
          /\ Val(lastDrop.allChanges)[j].targetListId = Payload.sourceListId
          /\ ~Rendered(Payload.sourceListId, Val(lastDrop.allChanges)[j].uuid)

\* C36 happened on the source list: a drop on a hovered item of the source
\* list followed a snapshot supplied during the gesture
C36_SameListReached ==
    /\ SameListDrop
    /\ Names(allowedLists[lastDrop.list], lastDrop.list)
    /\ lastDrop.draggedItems = <<>>
    /\ IsSome(lastDrop.draggedOverItem)

\* the step is a drop on a list of items dragged from another list
CrossListDropStep ==
    /\ lastDrop'.via # "none"
    /\ IsSome(lastDrop'.data)
    /\ Val(lastDrop'.data).sourceListId # lastDrop'.list

\* C37: a step that handles a cross-list drop, accepted or not, leaves the
\* displayed items of every list as they were, and the set of objects a list
\* displays changes only in a step that supplies a snapshot to that list.
C37_NoOptimisticMove ==
    [][/\ CrossListDropStep => items' = items
       /\ \A l \in Lists :
             Range(Uuids(items'[l])) # Range(Uuids(items[l])) =>
                lastLoad'.list = l]_vars

\* C37 happened: a cross-list drop was accepted and wrote a batch; the
\* target list displays what it displayed before, none of the dragged items
\* among it, and the source list still displays all of them
C37_Witness ==
    /\ CrossListDrop
    /\ IsSome(changeJsonAttribute)
    /\ Payload.itemUuids # <<>>
    /\ items[lastDrop.list] = lastDrop.items
    /\ \A u \in Range(Payload.itemUuids) :
          /\ ~Rendered(lastDrop.list, u)
          /\ Rendered(Payload.sourceListId, u)

====
